---- MODULE Spec2Model ----
(***************************************************************************)
(* A model of the batch pipeline of tile_to_json:                          *)
(*   - BatchProcessor.Process / ProcessChunk / worker                      *)
(*     (internal/batch/processor.go),                                      *)
(*   - DefaultCoordinator (internal/batch/coordinator.go),                 *)
(*   - the retry loops of HTTPFetcher, LocalFetcher and processWorkItem.   *)
(*                                                                         *)
(* Spec       one Process run on one job, as cmd/batch.go starts it, with  *)
(*            the context being cancelled or timing out at any moment.     *)
(* SpecCoord  the coordinator operations interleaved with the Process runs *)
(*            they start.                                                  *)
(* SpecFetch  one request going through FetchWithRetry of either fetcher,  *)
(*            or through processWorkItem of the batch processor.           *)
(* SpecLocate the URL or file a batch work item is fetched from.           *)
(* SpecWrite  the documents the chunks of a job write to the output.       *)
(* SpecCLI    the source chosen by the convert and batch commands.         *)
(* SpecDetect Config.DetermineSourceType on any configuration.             *)
(* SpecEnum   the tiles of a batch job, counted and enumerated.            *)
(* SpecLayers the layer names of a decoded tile and of its metadata.       *)
(* SpecPayload  a fetched payload going through MVTProcessor.Process.      *)
(* SpecValidate ValidateCoordinates and TileID.Validate on any tile.       *)
(* SpecFeature  the properties of a converted feature.                     *)
(* SpecGeom     applyGeometryTransform on a geometry of any type.          *)
(* SpecOptions  ValidateConversionOptions and the converter constructors.  *)
(* SpecWorker   one worker of a chunk, attempt by attempt.                 *)
(* SpecChunk    the goroutines of one ProcessChunk call; SpecChunkLive adds*)
(*              the fairness of the Go scheduler.                          *)
(* SpecShared   the Process goroutines of a coordinator on its processor.  *)
(* SpecLocks    the locks taken by the coordinator and by its Process      *)
(*              goroutines around their writes to a job.                   *)
(* SpecJobsMap  the callers of GetJob and of the operations that lock the  *)
(*              coordinator's job map.                                     *)
(* SpecFetchBatch  the goroutines of one HTTPFetcher.FetchBatch call.      *)
(* SpecSubmit   SubmitJob on any job, valid or not.                        *)
(* SpecConvert  Converter.Convert called twice on one tile.                *)
(* SpecFormat   the output format from validateOutput to NewFormatter.     *)
(* SpecTransform  the decoder's transform of tile coordinates.             *)
(***************************************************************************)
EXTENDS Integers, Sequences, FiniteSets, TLC

VARIABLES
    job,     \* the batch.Job: Status, Progress, Error, Config, TileRanges
    runs,    \* the Process invocations (goroutines) on the job, in start order
    coord,   \* DefaultCoordinator: is the job in c.jobs, is c.ctx cancelled
    fetch,   \* one request inside a retry loop (SpecFetch)
    out,     \* the output writer: the documents written to its destination
    call     \* a function called on its own: its name, arguments and result

vars == <<job, runs, coord, fetch, out, call>>

----------------------------------------------------------------------------
(* Bounds of the model *)

\* the largest number of tiles a job's range enumerates
MaxTiles == 11
\* the largest configured chunk size
MaxChunkSize == 11
\* the zoom level of the ranges of the model (2^Zoom >= MaxTiles + 1)
Zoom == 4

(* Program constants *)

\* ProcessChunk: concurrency := min(len(workItems), 10)
MaxWorkers == 10
\* ValidateCoordinates: z > 22 is invalid
MaxZoomLevel == 22
\* NewJobConfig: Concurrency: 10
DefaultConcurrency == 10

Min(a, b) == IF a < b THEN a ELSE b

----------------------------------------------------------------------------
(* Tile ranges and their enumeration *)

\* tile.ValidateCoordinates: TRUE when it returns nil
ValidateCoordinates(z, x, y) ==
    /\ ~(z < 0 \/ z > MaxZoomLevel)
    /\ ~(x < 0 \/ x >= 2 ^ z)
    /\ ~(y < 0 \/ y >= 2 ^ z)

\* A URL or file path is the sequence of its "/"-separated segments, the empty
\* string being the empty sequence. Lit is a segment of plain text; Num is a
\* segment printed by fmt.Sprintf("%d%s", n, ext), ext a sequence of suffixes.
Lit(s) == [text |-> s, num |-> -1, ext |-> <<>>]
Num(n, ext) == [text |-> "", num |-> n, ext |-> ext]

\* buildTileURL: "https://example.com/tiles/%d/%d/%d.mvt"
buildTileURL(z, x, y) ==
    << Lit("https:"), Lit(""), Lit("example.com"), Lit("tiles"),
       Num(z, <<>>), Num(x, <<>>), Num(y, <<".mvt">>) >>

\* the innermost statement of generateWorkItems: validate, then append the
\* work item of the request {Z, X, Y, URL: buildTileURL(z, x, y)}
AppendItem(acc, z, x, y) ==
    IF acc.err THEN acc
    ELSE IF ~ValidateCoordinates(z, x, y)
         THEN [err |-> TRUE, items |-> <<>>]
         ELSE [err |-> FALSE,
               items |-> Append(acc.items,
                                [z |-> z, x |-> x, y |-> y,
                                 url |-> buildTileURL(z, x, y)])]

RECURSIVE LoopY(_, _, _, _, _)
LoopY(tr, z, x, y, acc) ==
    IF y > tr.MaxY \/ acc.err THEN acc
    ELSE LoopY(tr, z, x, y + 1, AppendItem(acc, z, x, y))

RECURSIVE LoopX(_, _, _, _)
LoopX(tr, z, x, acc) ==
    IF x > tr.MaxX \/ acc.err THEN acc
    ELSE LoopX(tr, z, x + 1, LoopY(tr, z, x, tr.MinY, acc))

RECURSIVE LoopZ(_, _, _)
LoopZ(tr, z, acc) ==
    IF z > tr.MaxZ \/ acc.err THEN acc
    ELSE LoopZ(tr, z + 1, LoopX(tr, z, tr.MinX, acc))

RECURSIVE LoopRanges(_, _, _)
LoopRanges(ranges, i, acc) ==
    IF i > Len(ranges) \/ acc.err THEN acc
    ELSE LoopRanges(ranges, i + 1, LoopZ(ranges[i], ranges[i].MinZ, acc))

\* generateWorkItems: the work items in enumeration order, or an error
GenerateWorkItems(ranges) ==
    LoopRanges(ranges, 1, [err |-> FALSE, items |-> <<>>])

\* the ranges a job of the model is created with: one zoom level, one row of
\* 0..MaxTiles tiles, the row inside the grid (y = 0) or outside it (y = 2^Zoom)
RangeInputs ==
    { << [MinZ |-> Zoom, MaxZ |-> Zoom, MinX |-> 0, MaxX |-> mx,
          MinY |-> my, MaxY |-> my] >> :
        mx \in -1 .. (MaxTiles - 1), my \in {0, 2 ^ Zoom} }

----------------------------------------------------------------------------
(* The job *)

\* NewJobProgress
NewJobProgress ==
    [TotalTiles |-> 0, ProcessedTiles |-> 0, FailedTiles |-> 0,
     SuccessTiles |-> 0, CurrentChunk |-> 0, TotalChunks |-> 0]

\* NewJob: a pending job with fresh progress
NewJob(ranges, config) ==
    [Status     |-> "pending",
     Progress   |-> NewJobProgress,
     Error      |-> "nil",
     TileRanges |-> ranges,
     Config     |-> config]

\* a JobConfig: the fields of NewJobConfig that Process and validateJob read
JobConfig(concurrency, chunkSize, timeout, failOnError, resume) ==
    [Concurrency |-> concurrency, ChunkSize |-> chunkSize, Timeout |-> timeout,
     FailOnError |-> failOnError, Resume |-> resume]

\* JobProgress.CalculateProgress, as the pair (numerator, denominator) of the
\* percentage: the value is num / den, and 0 when TotalTiles = 0
CalculateProgress(p) ==
    IF p.TotalTiles = 0 THEN [num |-> 0, den |-> 1]
    ELSE [num |-> p.ProcessedTiles * 100, den |-> p.TotalTiles]

\* Job.IsComplete
IsComplete(j) == j.Status \in {"completed", "failed", "canceled"}
\* Job.IsRunning
IsRunning(j) == j.Status = "running"
\* Job.CanResume
CanResume(j) == j.Status = "paused" \/ (j.Status = "failed" /\ j.Config.Resume)

----------------------------------------------------------------------------
(* One Process run *)

NoResults == [ok |-> 0, tileErr |-> 0, ctxErr |-> 0]

\* the locals of a Process invocation that has not started yet
NewRun(ctx) ==
    [pc           |-> "start",
     ctx          |-> ctx,        \* "active", "canceled" or "deadline"
     n            |-> 0,          \* len(workItems)
     chunkStart   |-> 0,
     chunkLen     |-> 0,          \* len(chunk) of the chunk in ProcessChunk
     workChan     |-> 0,          \* items still in workChan
     workers      |-> 0,          \* worker goroutines started for the chunk
     idle         |-> 0,          \* workers started and not holding an item
     busy         |-> 0,          \* workers inside processWorkItem
     res          |-> NoResults,  \* results sent to resultChan, by their Error
     chunkErr     |-> FALSE,      \* the error ProcessChunk returns
     chunkResults |-> [chunks |-> 0, ok |-> 0, tileErr |-> 0, ctxErr |-> 0],
     dispatched   |-> 0,          \* chunks handed to ProcessChunk
     ret          |-> "none"]     \* what Process returned: "nil" or "err"

\* completeJobSuccessfully
completeJobSuccessfully(j) == [j EXCEPT !.Status = "completed"]

\* completeJobWithError
completeJobWithError(j, err) == [j EXCEPT !.Status = "failed", !.Error = err]

\* a progress update that leaves FailedTiles alone
updateJobProgress_NoFailed(j, nResults, successCount, failureCount) ==
    [j EXCEPT !.Progress.ProcessedTiles = @ + nResults,
              !.Progress.SuccessTiles   = @ + successCount]

\* a progress update that stores the counts of the chunk in the place of the sums
updateJobProgress_Set(j, nResults, successCount, failureCount) ==
    [j EXCEPT !.Progress.ProcessedTiles = nResults,
              !.Progress.SuccessTiles   = successCount,
              !.Progress.FailedTiles    = failureCount]

\* updateJobProgress, with len(chunkResult.Results), SuccessCount, FailureCount
updateJobProgress(j, nResults, successCount, failureCount) ==
    [j EXCEPT !.Progress.ProcessedTiles = @ + nResults,
              !.Progress.SuccessTiles   = @ + successCount,
              !.Progress.FailedTiles    = @ + failureCount]

\* a counting loop that takes only results carrying the context's error as failures
FailureCount_OnlyCtx(res) == res.ctxErr

\* the counting loop of ProcessChunk over resultChan
SuccessCount(res) == res.ok
FailureCount(res) == res.tileErr + res.ctxErr
ResultCount(res)  == res.ok + res.tileErr + res.ctxErr

\* ctx.Err() of a context that is done
CtxErr(ctx) == IF ctx = "deadline" THEN "deadline exceeded" ELSE "context canceled"

\* Process, lines 399-404: the job is marked running
ProcessStart(r) ==
    /\ runs[r].pc = "start"
    /\ job' = [job EXCEPT !.Status = "running"]
    /\ runs' = [runs EXCEPT ![r].pc = "generate"]
    /\ UNCHANGED <<coord, fetch, out, call>>

\* Process, lines 412-422: the work items, TotalTiles and TotalChunks
ProcessGenerate(r) ==
    /\ runs[r].pc = "generate"
    /\ LET g == GenerateWorkItems(job.TileRanges)
           n == Len(g.items)
       IN IF g.err
          THEN /\ job' = completeJobWithError(job, "generate")
               /\ runs' = [runs EXCEPT ![r].pc = "done", ![r].ret = "err"]
          ELSE /\ job' = [job EXCEPT
                            !.Progress.TotalTiles = n,
                            !.Progress.TotalChunks =
                                (n + job.Config.ChunkSize - 1) \div job.Config.ChunkSize]
               /\ runs' = [runs EXCEPT ![r].pc = "loop", ![r].n = n,
                                       ![r].chunkStart = 0]
    /\ UNCHANGED <<coord, fetch, out, call>>

\* Process, lines 427-447 and ProcessChunk, lines 484-503: the loop condition,
\* the cancellation check, the chunk, and the start of its workers
ProcessLoop(r) ==
    /\ runs[r].pc = "loop"
    /\ LET run == runs[r]
           chunkEnd == Min(run.chunkStart + job.Config.ChunkSize, run.n)
           len == chunkEnd - run.chunkStart
       IN IF ~(run.chunkStart < run.n)
          THEN /\ runs' = [runs EXCEPT ![r].pc = "complete"]
               /\ job' = job
          ELSE IF run.ctx # "active"
          THEN /\ job' = completeJobWithError(job, CtxErr(run.ctx))
               /\ runs' = [runs EXCEPT ![r].pc = "done", ![r].ret = "err"]
          ELSE /\ job' = [job EXCEPT !.Progress.CurrentChunk = run.chunkResults.chunks + 1]
               /\ runs' = [runs EXCEPT ![r].pc = "workers",
                                       ![r].chunkLen = len,
                                       ![r].workChan = len,
                                       ![r].workers = Min(len, MaxWorkers),
                                       ![r].idle = Min(len, MaxWorkers),
                                       ![r].busy = 0,
                                       ![r].res = NoResults,
                                       ![r].dispatched = @ + 1]
    /\ UNCHANGED <<coord, fetch, out, call>>

\* worker, lines 553-564: a worker receives an item; with the context done it
\* sends a result carrying ctx.Err() and returns
WorkerReceive(r) ==
    /\ runs[r].pc = "workers"
    /\ runs[r].idle > 0
    /\ runs[r].workChan > 0
    /\ IF runs[r].ctx # "active"
       THEN runs' = [runs EXCEPT ![r].workChan = @ - 1,
                                 ![r].idle = @ - 1,
                                 ![r].res.ctxErr = @ + 1]
       ELSE runs' = [runs EXCEPT ![r].workChan = @ - 1,
                                 ![r].idle = @ - 1,
                                 ![r].busy = @ + 1]
    /\ UNCHANGED <<job, coord, fetch, out, call>>

\* worker, lines 566-567: processWorkItem returns and its result is sent;
\* tileOK is whether some attempt fetched and converted the tile
WorkerResult(r, tileOK) ==
    /\ runs[r].pc = "workers"
    /\ runs[r].busy > 0
    /\ runs' = [runs EXCEPT ![r].busy = @ - 1,
                            ![r].idle = @ + 1,
                            ![r].res.ok = IF tileOK THEN @ + 1 ELSE @,
                            ![r].res.tileErr = IF tileOK THEN @ ELSE @ + 1]
    /\ UNCHANGED <<job, coord, fetch, out, call>>

\* every worker has returned: none is inside processWorkItem, and the ones left
\* find workChan closed and empty
WorkersDone(run) == run.busy = 0 /\ (run.workChan = 0 \/ run.idle = 0)

\* ProcessChunk, lines 505-549: the results are collected and the processed
\* tiles written; writeOK is whether WriteBatch returns nil
ProcessChunkWrite(r, writeOK) ==
    /\ runs[r].pc = "workers"
    /\ WorkersDone(runs[r])
    /\ writeOK \/ runs[r].res.ok > 0
    /\ runs' = [runs EXCEPT ![r].pc = "update",
                            ![r].idle = 0,
                            ![r].workChan = 0,
                            ![r].chunkErr = ~writeOK]
    /\ UNCHANGED <<job, coord, fetch, out, call>>

\* a progress update after which the loop advances one item too far
ProcessUpdate_SkipOne(r) ==
    /\ runs[r].pc = "update"
    /\ LET run == runs[r]
       IN IF run.chunkErr /\ job.Config.FailOnError
          THEN /\ job' = completeJobWithError(job, "chunk failed")
               /\ runs' = [runs EXCEPT ![r].pc = "done", ![r].ret = "err"]
          ELSE /\ job' = updateJobProgress(job, ResultCount(run.res),
                                           SuccessCount(run.res), FailureCount(run.res))
               /\ runs' = [runs EXCEPT
                             ![r].pc = "loop",
                             ![r].chunkStart = @ + job.Config.ChunkSize + 1,
                             ![r].chunkErr = FALSE,
                             ![r].chunkLen = 0,
                             ![r].res = NoResults,
                             ![r].chunkResults =
                                 [chunks  |-> @.chunks + 1,
                                  ok      |-> @.ok + run.res.ok,
                                  tileErr |-> @.tileErr + run.res.tileErr,
                                  ctxErr  |-> @.ctxErr + run.res.ctxErr]]
    /\ UNCHANGED <<coord, fetch, out, call>>

\* Process, lines 450-467: the chunk's error, then the progress update
ProcessUpdate(r) ==
    /\ runs[r].pc = "update"
    /\ LET run == runs[r]
       IN IF run.chunkErr /\ job.Config.FailOnError
          THEN /\ job' = completeJobWithError(job, "chunk failed")
               /\ runs' = [runs EXCEPT ![r].pc = "done", ![r].ret = "err"]
          ELSE /\ job' = updateJobProgress(job, ResultCount(run.res),
                                           SuccessCount(run.res), FailureCount(run.res))
               /\ runs' = [runs EXCEPT
                             ![r].pc = "loop",
                             ![r].chunkStart = @ + job.Config.ChunkSize,
                             ![r].chunkErr = FALSE,
                             ![r].chunkLen = 0,
                             ![r].res = NoResults,
                             ![r].chunkResults =
                                 [chunks  |-> @.chunks + 1,
                                  ok      |-> @.ok + run.res.ok,
                                  tileErr |-> @.tileErr + run.res.tileErr,
                                  ctxErr  |-> @.ctxErr + run.res.ctxErr]]
    /\ UNCHANGED <<coord, fetch, out, call>>

\* Process, lines 470-477: the job is completed and Process returns nil
ProcessComplete(r) ==
    /\ runs[r].pc = "complete"
    /\ job' = completeJobSuccessfully(job)
    /\ runs' = [runs EXCEPT ![r].pc = "done", ![r].ret = "nil"]
    /\ UNCHANGED <<coord, fetch, out, call>>

\* the deadline of context.WithTimeout(.., Timeout) passes while Process runs
CtxDeadline(r) ==
    /\ runs[r].pc \notin {"done", "exit"}
    /\ runs[r].ctx = "active"
    /\ runs' = [runs EXCEPT ![r].ctx = "deadline"]
    /\ UNCHANGED <<job, coord, fetch, out, call>>

\* the caller of Process cancels the context while Process runs
CtxCancel(r) ==
    /\ runs[r].pc \notin {"done", "exit"}
    /\ runs[r].ctx = "active"
    /\ runs' = [runs EXCEPT ![r].ctx = "canceled"]
    /\ UNCHANGED <<job, coord, fetch, out, call>>

----------------------------------------------------------------------------
(* Spec: runBatch creates one job and calls Process on it *)

NoFetch == [pc |-> "off"]
NoCoord == [jobs |-> FALSE, ctx |-> "active"]
NoOut == [pc |-> "off"]
NoCall == [fn |-> "none"]

\* the values of batch.concurrency a job of the model is configured with
ConcurrencyInputs == {2, DefaultConcurrency}

Init ==
    /\ \E ranges \in RangeInputs, cs \in 1 .. MaxChunkSize, foe \in BOOLEAN,
          conc \in ConcurrencyInputs :
          job = NewJob(ranges, JobConfig(conc, cs, 1, foe, FALSE))
    /\ runs = << NewRun("active") >>
    /\ coord = NoCoord
    /\ fetch = NoFetch
    /\ out = NoOut
    /\ call = NoCall

Next ==
    \/ ProcessStart(1)
    \/ ProcessGenerate(1)
    \/ ProcessLoop(1)
    \/ WorkerReceive(1)
    \/ \E tileOK \in BOOLEAN : WorkerResult(1, tileOK)
    \/ \E writeOK \in BOOLEAN : ProcessChunkWrite(1, writeOK)
    \/ ProcessUpdate(1)
    \/ ProcessComplete(1)
    \/ CtxDeadline(1)
    \/ CtxCancel(1)

Spec == Init /\ [][Next]_vars

----------------------------------------------------------------------------
(* The coordinator *)

\* the largest number of Process goroutines the coordinator starts for the job
MaxRuns == 2
\* the largest number of tiles of a job given to the coordinator
CoordMaxTiles == 2
\* the largest chunk size of a job given to the coordinator
CoordMaxChunkSize == 2

\* a validateTileRange that compares the coordinates with the grid of the
\* highest zoom level only
validateTileRange_MaxZoomOnly(tr) ==
    /\ ~(tr.MinZ < 0 \/ tr.MaxZ > MaxZoomLevel)
    /\ ~(tr.MinZ > tr.MaxZ)
    /\ ~(tr.MinX > tr.MaxX)
    /\ ~(tr.MinY > tr.MaxY)
    /\ ~(tr.MinX < 0 \/ tr.MaxX >= 2 ^ tr.MaxZ)
    /\ ~(tr.MinY < 0 \/ tr.MaxY >= 2 ^ tr.MaxZ)

\* validateTileRange: TRUE when it returns nil
validateTileRange(tr) ==
    /\ ~(tr.MinZ < 0 \/ tr.MaxZ > MaxZoomLevel)
    /\ ~(tr.MinZ > tr.MaxZ)
    /\ ~(tr.MinX > tr.MaxX)
    /\ ~(tr.MinY > tr.MaxY)
    /\ \A z \in tr.MinZ .. tr.MaxZ :
          /\ ~(tr.MinX < 0 \/ tr.MaxX >= 2 ^ z)
          /\ ~(tr.MinY < 0 \/ tr.MaxY >= 2 ^ z)

\* validateJob: TRUE when it returns nil (the model's jobs always have a Config)
validateJob(j) ==
    /\ ~(Len(j.TileRanges) = 0)
    /\ ~(j.Config.Concurrency <= 0)
    /\ ~(j.Config.ChunkSize <= 0)
    /\ ~(j.Config.Timeout <= 0)
    /\ \A i \in 1 .. Len(j.TileRanges) : validateTileRange(j.TileRanges[i])

\* the context of a goroutine started by the coordinator:
\* context.WithTimeout(c.ctx, job.Config.Timeout)
JobCtx(c) == IF c.ctx = "canceled" THEN "canceled" ELSE "active"

\* SubmitJob; persistOK is whether c.store.SaveJob returns nil (or no store is set)
SubmitJob(persistOK) ==
    /\ ~coord.jobs
    /\ validateJob(job)
    /\ job' = [job EXCEPT !.Progress = NewJobProgress, !.Status = "pending"]
    /\ IF persistOK
       THEN /\ Len(runs) < MaxRuns
            /\ coord' = [coord EXCEPT !.jobs = TRUE]
            /\ runs' = Append(runs, NewRun(JobCtx(coord)))
       ELSE UNCHANGED <<coord, runs, out, call>>
    /\ UNCHANGED <<fetch, out, call>>

\* the goroutine of SubmitJob and ResumeJob after Process returned an error
CoordProcessFailed(r) ==
    /\ runs[r].pc = "done"
    /\ runs[r].ret = "err"
    /\ job' = [job EXCEPT !.Status = "failed", !.Error = "process"]
    /\ runs' = [runs EXCEPT ![r].pc = "exit"]
    /\ UNCHANGED <<coord, fetch, out, call>>

\* CancelJob
CancelJob ==
    /\ coord.jobs
    /\ ~IsComplete(job)
    /\ job' = [job EXCEPT !.Status = "canceled"]
    /\ UNCHANGED <<runs, coord, fetch, out, call>>

\* PauseJob
PauseJob ==
    /\ coord.jobs
    /\ IsRunning(job)
    /\ job' = [job EXCEPT !.Status = "paused"]
    /\ UNCHANGED <<runs, coord, fetch, out, call>>

\* ResumeJob
ResumeJob ==
    /\ coord.jobs
    /\ CanResume(job)
    /\ Len(runs) < MaxRuns
    /\ job' = [job EXCEPT !.Status = "pending"]
    /\ runs' = Append(runs, NewRun(JobCtx(coord)))
    /\ UNCHANGED <<coord, fetch, out, call>>

\* Shutdown: c.cancel(), then every running job is marked canceled
Shutdown ==
    /\ coord' = [coord EXCEPT !.ctx = "canceled"]
    /\ runs' = [r \in DOMAIN runs |->
                  IF runs[r].ctx = "active" /\ runs[r].pc \notin {"done", "exit"}
                  THEN [runs[r] EXCEPT !.ctx = "canceled"]
                  ELSE runs[r]]
    /\ job' = IF coord.jobs /\ IsRunning(job)
              THEN [job EXCEPT !.Status = "canceled"]
              ELSE job
    /\ UNCHANGED <<fetch, out, call>>

\* the jobs handed to SubmitJob: ranges of 0..CoordMaxTiles tiles inside or
\* outside the grid, and configurations validateJob accepts or rejects
CoordRangeInputs ==
    { << [MinZ |-> Zoom, MaxZ |-> Zoom, MinX |-> 0, MaxX |-> mx,
          MinY |-> my, MaxY |-> my] >> :
        mx \in -1 .. (CoordMaxTiles - 1), my \in {0, 2 ^ Zoom} }

CoordConfigInputs ==
    { JobConfig(DefaultConcurrency, cs, 1, foe, res) :
        cs \in 0 .. CoordMaxChunkSize, foe \in BOOLEAN, res \in BOOLEAN }

InitCoord ==
    /\ \E ranges \in CoordRangeInputs, cfg \in CoordConfigInputs :
          job = NewJob(ranges, cfg)
    /\ runs = << >>
    /\ coord = NoCoord
    /\ fetch = NoFetch
    /\ out = NoOut
    /\ call = NoCall

NextCoord ==
    \/ \E persistOK \in BOOLEAN : SubmitJob(persistOK)
    \/ CancelJob
    \/ PauseJob
    \/ ResumeJob
    \/ Shutdown
    \/ \E r \in DOMAIN runs : ProcessStart(r)
    \/ \E r \in DOMAIN runs : ProcessGenerate(r)
    \/ \E r \in DOMAIN runs : ProcessLoop(r)
    \/ \E r \in DOMAIN runs : WorkerReceive(r)
    \/ \E r \in DOMAIN runs, tileOK \in BOOLEAN : WorkerResult(r, tileOK)
    \/ \E r \in DOMAIN runs, writeOK \in BOOLEAN : ProcessChunkWrite(r, writeOK)
    \/ \E r \in DOMAIN runs : ProcessUpdate(r)
    \/ \E r \in DOMAIN runs : ProcessComplete(r)
    \/ \E r \in DOMAIN runs : CtxDeadline(r)
    \/ \E r \in DOMAIN runs : CoordProcessFailed(r)

SpecCoord == InitCoord /\ [][NextCoord]_vars

----------------------------------------------------------------------------
(* The retry loops: FetchWithRetry of both fetchers, and processWorkItem *)

\* the largest configured server.max_retries
MaxRetriesCfg == 4
\* LocalFetcher.FetchWithRetry: maxRetries := 3
LocalMaxRetries == 3
\* processWorkItem: for attempt := 0; attempt <= 3; attempt++
BatchMaxRetries == 3

\* the HTTP statuses a server of the model answers with
HTTPStatuses == {200, 204, 304, 404, 500}

\* what one HTTPFetcher.Fetch call meets: buildHTTPRequest fails, client.Do
\* fails, gzip.NewReader fails, io.ReadAll fails, or a body is read
HTTPEvents ==
    {[kind |-> "build", status |-> 0], [kind |-> "transport", status |-> 0]}
    \cup [kind : {"gzip", "read", "body"}, status : HTTPStatuses]

\* what one LocalFetcher.Fetch call meets: buildFilePath fails, the file does
\* not exist, os.Stat fails otherwise (permission denied), the path is no
\* regular file, os.Open fails (permission denied), gzip.NewReader fails,
\* io.ReadAll fails, or the file is read
LocalEvents ==
    [kind : {"path", "notexist", "stat", "notregular", "open", "gzip", "read", "ok"},
     status : {0}]

FetchEvents(fetcher) == IF fetcher = "http" THEN HTTPEvents ELSE LocalEvents

\* a TileResponse (StatusCode, and the Code of its Error when that is an
\* *internal.Error) with the error value returned next to it: err.isErr is
\* err != nil, err.code the Code of an *internal.Error and "" of any other error
FetchResult(status, respCode, isErr, errCode) ==
    [resp |-> [StatusCode |-> status, ErrorCode |-> respCode],
     err  |-> [isErr |-> isErr, code |-> errCode]]

\* HTTPFetcher.Fetch
HTTPFetch(ev) ==
    CASE ev.kind = "build"     -> FetchResult(0, "", TRUE, "")
      [] ev.kind = "transport" -> FetchResult(0, "", TRUE, "")
      [] ev.kind = "gzip"      -> FetchResult(ev.status, "", TRUE, "")
      [] ev.kind = "read"      -> FetchResult(ev.status, "", TRUE, "")
      [] OTHER                 -> FetchResult(ev.status, "", ev.status # 200, "")

\* LocalFetcher.Fetch
LocalFetch(ev) ==
    CASE ev.kind = "path"       -> FetchResult(0, "VALIDATION_ERROR", TRUE, "")
      [] ev.kind = "notexist"   -> FetchResult(0, "NOT_FOUND", TRUE, "NOT_FOUND")
      [] ev.kind = "stat"       -> FetchResult(0, "FILESYSTEM_ERROR", TRUE, "FILESYSTEM_ERROR")
      [] ev.kind = "notregular" -> FetchResult(0, "VALIDATION_ERROR", TRUE, "VALIDATION_ERROR")
      [] ev.kind = "open"       -> FetchResult(0, "FILESYSTEM_ERROR", TRUE, "FILESYSTEM_ERROR")
      [] ev.kind = "gzip"       -> FetchResult(0, "PROCESSING_ERROR", TRUE, "PROCESSING_ERROR")
      [] ev.kind = "read"       -> FetchResult(0, "FILESYSTEM_ERROR", TRUE, "FILESYSTEM_ERROR")
      [] OTHER                  -> FetchResult(200, "", FALSE, "")

\* Fetcher.Fetch of the configured fetcher
Fetch(fetcher, ev) == IF fetcher = "http" THEN HTTPFetch(ev) ELSE LocalFetch(ev)

\* HTTPFetcher.shouldRetry (Fetch never returns a nil response)
HTTPShouldRetry(resp, err) ==
    IF resp.StatusCode >= 400 /\ resp.StatusCode < 500 THEN FALSE
    ELSE IF resp.StatusCode >= 500 \/ resp.StatusCode = 0 THEN TRUE
    ELSE FALSE

\* LocalFetcher.shouldRetry (Fetch never returns a nil response)
LocalShouldRetry(resp, err) ==
    IF err.code \in {"NOT_FOUND", "PERMISSION_ERROR", "VALIDATION_ERROR"} THEN FALSE
    ELSE TRUE

shouldRetry(fetcher, resp, err) ==
    IF fetcher = "http" THEN HTTPShouldRetry(resp, err) ELSE LocalShouldRetry(resp, err)

\* the last value of the loop variable for which FetchWithRetry runs its body
RetryLimit(fetcher, maxRetries) ==
    IF fetcher = "http" THEN maxRetries ELSE LocalMaxRetries

\* a request entering caller ("FetchWithRetry" or "processWorkItem") of fetcher
NewFetch(fetcher, caller, maxRetries) ==
    [pc         |-> "loop",
     fetcher    |-> fetcher,
     caller     |-> caller,
     maxRetries |-> maxRetries,   \* config.Server.MaxRetries
     attempt    |-> 0,            \* the loop variable
     calls      |-> 0,            \* Fetch calls made for the request
     convs      |-> 0,            \* bp.processor.Process calls made for it
     ev         |-> [kind |-> "none", status |-> 0],  \* what the last call met
     resp       |-> [StatusCode |-> 0, ErrorCode |-> ""],
     err        |-> [isErr |-> FALSE, code |-> ""],
     ok         |-> FALSE]        \* a response or tile was returned without error

\* one iteration of the loop of HTTPFetcher.FetchWithRetry or
\* LocalFetcher.FetchWithRetry: sleep, Fetch, return, break or continue
FetchWithRetryStep(ev) ==
    /\ fetch.pc = "loop"
    /\ fetch.caller = "FetchWithRetry"
    /\ ev \in FetchEvents(fetch.fetcher)
    /\ fetch.attempt <= RetryLimit(fetch.fetcher, fetch.maxRetries)
    /\ LET got == Fetch(fetch.fetcher, ev)
       IN fetch' = [fetch EXCEPT
              !.calls = @ + 1,
              !.ev = ev,
              !.resp = got.resp,
              !.err = got.err,
              !.ok = ~got.err.isErr,
              !.attempt = IF got.err.isErr
                             /\ shouldRetry(fetch.fetcher, got.resp, got.err)
                          THEN @ + 1 ELSE @,
              !.pc = IF got.err.isErr
                        /\ shouldRetry(fetch.fetcher, got.resp, got.err)
                     THEN "loop" ELSE "done"]
    /\ UNCHANGED <<job, runs, coord, out, call>>

\* the loop condition of FetchWithRetry fails: the last error is returned
FetchWithRetryExhausted ==
    /\ fetch.pc = "loop"
    /\ fetch.caller = "FetchWithRetry"
    /\ ~(fetch.attempt <= RetryLimit(fetch.fetcher, fetch.maxRetries))
    /\ fetch' = [fetch EXCEPT !.pc = "done"]
    /\ UNCHANGED <<job, runs, coord, out, call>>

\* an iteration of the loop of processWorkItem that goes on after a success
ProcessWorkItemStep_NoStop(ev, convOK) ==
    /\ fetch.pc = "loop"
    /\ fetch.caller = "processWorkItem"
    /\ ev \in FetchEvents(fetch.fetcher)
    /\ fetch.attempt <= BatchMaxRetries
    /\ LET got == Fetch(fetch.fetcher, ev)
           success == ~got.err.isErr /\ convOK
       IN fetch' = [fetch EXCEPT
              !.calls = @ + 1,
              !.convs = IF got.err.isErr THEN @ ELSE @ + 1,
              !.ev = ev,
              !.resp = got.resp,
              !.err = got.err,
              !.ok = @ \/ success,
              !.attempt = @ + 1,
              !.pc = "loop"]
    /\ UNCHANGED <<job, runs, coord, out, call>>

\* one iteration of the loop of processWorkItem: sleep, bp.fetcher.Fetch, then
\* bp.processor.Process; convOK is whether the conversion returns nil
ProcessWorkItemStep(ev, convOK) ==
    /\ fetch.pc = "loop"
    /\ fetch.caller = "processWorkItem"
    /\ ev \in FetchEvents(fetch.fetcher)
    /\ fetch.attempt <= BatchMaxRetries
    /\ LET got == Fetch(fetch.fetcher, ev)
           success == ~got.err.isErr /\ convOK
       IN fetch' = [fetch EXCEPT
              !.calls = @ + 1,
              !.convs = IF got.err.isErr THEN @ ELSE @ + 1,
              !.ev = ev,
              !.resp = got.resp,
              !.err = got.err,
              !.ok = success,
              !.attempt = IF success THEN @ ELSE @ + 1,
              !.pc = IF success THEN "done" ELSE "loop"]
    /\ UNCHANGED <<job, runs, coord, out, call>>

\* the loop condition of processWorkItem fails: all attempts failed
ProcessWorkItemExhausted ==
    /\ fetch.pc = "loop"
    /\ fetch.caller = "processWorkItem"
    /\ ~(fetch.attempt <= BatchMaxRetries)
    /\ fetch' = [fetch EXCEPT !.pc = "done"]
    /\ UNCHANGED <<job, runs, coord, out, call>>

InitFetch ==
    /\ \E fetcher \in {"http", "local"},
          caller \in {"FetchWithRetry", "processWorkItem"},
          maxRetries \in 0 .. MaxRetriesCfg :
          fetch = NewFetch(fetcher, caller, maxRetries)
    /\ job = NewJob(<< >>, JobConfig(DefaultConcurrency, 1, 1, FALSE, FALSE))
    /\ runs = << >>
    /\ coord = NoCoord
    /\ out = NoOut
    /\ call = NoCall

NextFetch ==
    \/ \E ev \in HTTPEvents \cup LocalEvents : FetchWithRetryStep(ev)
    \/ FetchWithRetryExhausted
    \/ \E ev \in HTTPEvents \cup LocalEvents, convOK \in BOOLEAN :
          ProcessWorkItemStep(ev, convOK)
    \/ ProcessWorkItemExhausted

SpecFetch == InitFetch /\ [][NextFetch]_vars

----------------------------------------------------------------------------
(* SpecLocate: where a batch work item is fetched from *)

\* the deepest zoom level of the tiles located
LocateMaxZoom == 2

\* server.base_url and local.base_path of the configurations of the model
BaseURLInputs ==
    { <<>>,
      << Lit("https:"), Lit(""), Lit("example.com"), Lit("tiles") >>,
      << Lit("https:"), Lit(""), Lit("tiles.example.org"), Lit("v1") >> }
BasePathInputs == { <<>>, << Lit(""), Lit("data"), Lit("tiles") >> }

\* Config.GetTileURL: "%s/%d/%d/%d.mvt" under server.base_url
GetTileURL(cfg, z, x, y) ==
    IF cfg.BaseURL # <<>>
    THEN cfg.BaseURL \o << Num(z, <<>>), Num(x, <<>>), Num(y, <<".mvt">>) >>
    ELSE <<>>

\* Config.GetTilePath: "%s/%d/%d/%d%s" under local.base_path
GetTilePath(cfg, z, x, y) ==
    IF cfg.BasePath # <<>>
    THEN cfg.BasePath \o
         << Num(z, <<>>), Num(x, <<>>),
            Num(y, IF cfg.Compressed THEN cfg.Extension \o <<".gz">>
                   ELSE cfg.Extension) >>
    ELSE <<>>

\* filepath.IsAbs on a Unix path
IsAbs(path) == Len(path) >= 2 /\ path[1] = Lit("")

\* filepath.Clean, for paths without "." and "..": repeated separators collapse
Clean(path) ==
    SelectSeq([i \in 1 .. Len(path) |-> [i |-> i, seg |-> path[i]]],
              LAMBDA e : e.i = 1 \/ e.seg # Lit(""))

\* the segments of a cleaned path
Segments(path) == [i \in 1 .. Len(Clean(path)) |-> Clean(path)[i].seg]

\* filepath.Join of two paths: empty elements are ignored, the rest cleaned
Join(a, b) ==
    IF a = <<>> THEN Segments(b)
    ELSE IF b = <<>> THEN Segments(a)
    ELSE Segments(a \o b)

\* LocalFetcher.buildFilePath: the path, or an error
buildFilePath(cfg, request) ==
    IF request.url # <<>>
    THEN IF IsAbs(request.url)
         THEN [err |-> FALSE, path |-> request.url]
         ELSE [err |-> FALSE, path |-> Join(cfg.BasePath, request.url)]
    ELSE IF cfg.BasePath = <<>>
    THEN [err |-> TRUE, path |-> <<>>]
    ELSE IF ~ValidateCoordinates(request.z, request.x, request.y)
    THEN [err |-> TRUE, path |-> <<>>]
    ELSE [err |-> FALSE,
          path |-> Join(cfg.BasePath,
                        << Num(request.z, <<>>), Num(request.x, <<>>),
                           Num(request.y,
                               IF cfg.Compressed THEN cfg.Extension \o <<".gz">>
                               ELSE cfg.Extension) >>)]

\* the tiles a job of SpecLocate asks for
LocateTiles ==
    { t \in [z : 0 .. LocateMaxZoom, x : 0 .. 2 ^ LocateMaxZoom - 1,
             y : 0 .. 2 ^ LocateMaxZoom - 1] : ValidateCoordinates(t.z, t.x, t.y) }

\* generateWorkItems builds the work item of the job's tile
LocateGenerate ==
    /\ call.fn = "locate" /\ call.pc = "generate"
    /\ LET t == call.tile
           g == GenerateWorkItems(<< [MinZ |-> t.z, MaxZ |-> t.z, MinX |-> t.x,
                                      MaxX |-> t.x, MinY |-> t.y, MaxY |-> t.y] >>)
       IN call' = [call EXCEPT !.pc = "fetch", !.request = g.items[1]]
    /\ UNCHANGED <<job, runs, coord, fetch, out>>

\* HTTPFetcher.Fetch: buildHTTPRequest makes a GET request for tileReq.URL
LocateHTTP ==
    /\ call.fn = "locate" /\ call.pc = "fetch" /\ call.source = "http"
    /\ call' = [call EXCEPT !.pc = "done", !.located = call.request.url]
    /\ UNCHANGED <<job, runs, coord, fetch, out>>

\* LocalFetcher.Fetch: the file at buildFilePath(request) is read
LocateLocal ==
    /\ call.fn = "locate" /\ call.pc = "fetch" /\ call.source = "local"
    /\ LET b == buildFilePath(call.cfg, call.request)
       IN call' = [call EXCEPT !.pc = "done", !.failed = b.err, !.located = b.path]
    /\ UNCHANGED <<job, runs, coord, fetch, out>>

InitLocate ==
    /\ \E source \in {"http", "local"}, baseURL \in BaseURLInputs,
          basePath \in BasePathInputs, compressed \in BOOLEAN, t \in LocateTiles :
          /\ source = "http" => baseURL # <<>>
          /\ source = "local" => basePath # <<>>
          /\ call = [fn |-> "locate", pc |-> "generate", source |-> source,
                     cfg |-> [BaseURL |-> baseURL, BasePath |-> basePath,
                              Extension |-> <<".mvt">>, Compressed |-> compressed],
                     tile |-> t,
                     request |-> [z |-> 0, x |-> 0, y |-> 0, url |-> <<>>],
                     failed |-> FALSE, located |-> <<>>]
    /\ job = NewJob(<< >>, JobConfig(DefaultConcurrency, 1, 1, FALSE, FALSE))
    /\ runs = << >>
    /\ coord = NoCoord
    /\ fetch = NoFetch
    /\ out = NoOut

NextLocate == LocateGenerate \/ LocateHTTP \/ LocateLocal

SpecLocate == InitLocate /\ [][NextLocate]_vars

----------------------------------------------------------------------------
(* SpecWrite: the single-file writer of a batch job *)

\* the most tiles one chunk hands to the writer, and the most chunks of a job
MaxWriteTiles == 2
MaxWriteChunks == 2

\* A value held in an interface{} carries its dynamic type in dyn; a type
\* assertion v.(T) succeeds exactly when dyn is T.
\* A feature as convertFeatureToGeoJSON builds it: a *geojson.Feature
ConverterFeature(id) ==
    [dyn |-> "*geojson.Feature", id |-> id,
     properties |-> [dyn |-> "map[string]interface{}", tile |-> <<>>]]

\* A feature held as a generic JSON object
GenericFeature(id) ==
    [dyn |-> "map[string]interface{}", id |-> id,
     properties |-> [dyn |-> "map[string]interface{}", tile |-> <<>>]]

\* MVTProcessor.Process on a fetched tile: Data is the map Converter.Convert
\* returns, whose "features" is featureCollection.Features, a []*geojson.Feature
ConverterTile(z, x, y, ids) ==
    [Coordinate |-> [Z |-> z, X |-> x, Y |-> y], Error |-> FALSE,
     Data |-> [dyn |-> "map[string]interface{}",
               features |-> [dyn |-> "[]*geojson.Feature",
                             elems |-> [i \in 1 .. Len(ids) |-> ConverterFeature(ids[i])]]]]

\* a ProcessedTile whose Data holds generic JSON values only
GenericTile(z, x, y, ids) ==
    [Coordinate |-> [Z |-> z, X |-> x, Y |-> y], Error |-> FALSE,
     Data |-> [dyn |-> "map[string]interface{}",
               features |-> [dyn |-> "[]interface{}",
                             elems |-> [i \in 1 .. Len(ids) |-> GenericFeature(ids[i])]]]]

\* MVTProcessor.Process on a failed fetch or conversion: Error set, no Data
ErrorTile(z, x, y) ==
    [Coordinate |-> [Z |-> z, X |-> x, Y |-> y], Error |-> TRUE,
     Data |-> [dyn |-> "nil", features |-> [dyn |-> "nil", elems |-> <<>>]]]

\* props["_tile"] = fmt.Sprintf("%d/%d/%d", Z, X, Y), when feature and its
\* properties assert to map[string]interface{}
TagFeature(feature, coordinate) ==
    IF feature.dyn = "map[string]interface{}"
       /\ feature.properties.dyn = "map[string]interface{}"
    THEN [feature EXCEPT !.properties.tile = <<coordinate.Z, coordinate.X, coordinate.Y>>]
    ELSE feature

\* the body of the loop of GeoJSONFormatter.FormatBatch for one tile
FormatBatchTile(features, t, includeStats) ==
    IF t.Error THEN features
    ELSE IF t.Data.dyn = "map[string]interface{}"
            /\ t.Data.features.dyn = "[]interface{}"
    THEN features \o
         [i \in 1 .. Len(t.Data.features.elems) |->
             IF includeStats THEN TagFeature(t.Data.features.elems[i], t.Coordinate)
             ELSE t.Data.features.elems[i]]
    ELSE features

RECURSIVE FormatBatchLoop(_, _, _, _)
FormatBatchLoop(tiles, i, features, includeStats) ==
    IF i > Len(tiles) THEN features
    ELSE FormatBatchLoop(tiles, i + 1,
                         FormatBatchTile(features, tiles[i], includeStats),
                         includeStats)

\* GeoJSONFormatter.FormatBatch: the document that is marshalled
FormatBatch(tiles, includeStats) ==
    [type |-> "FeatureCollection",
     features |-> FormatBatchLoop(tiles, 1, <<>>, includeStats)]

\* the tiles of the model
ConverterTiles ==
    { ConverterTile(1, 0, 0, <<1>>), ConverterTile(1, 1, 0, <<2, 3>>) }
WriteTiles ==
    ConverterTiles \cup { ErrorTile(1, 0, 1), GenericTile(1, 1, 1, <<4>>) }

\* the sequences of at most MaxWriteTiles tiles of a set
TileSeqs(S) == UNION { [1 .. n -> S] : n \in 0 .. MaxWriteTiles }

\* ProcessChunk, lines 511-540, on a chunk of at least one item: the tiles of
\* the results without error are collected and, when there are any, written
\* with writer.WriteBatch
ChunkWrite(results) ==
    /\ out.pc = "open"
    /\ out.chunks < MaxWriteChunks
    /\ Len(results) >= 1
    /\ LET processedTiles == SelectSeq(results, LAMBDA t : ~t.Error)
       IN out' = [out EXCEPT
              !.chunks = @ + 1,
              !.given = @ \o processedTiles,
              !.docs = IF Len(processedTiles) > 0
                       THEN Append(@, FormatBatch(processedTiles, out.includeStats))
                       ELSE @]
    /\ UNCHANGED <<job, runs, coord, fetch, call>>

\* FileWriter.WriteBatch called with any tiles
WriteBatch(tiles) ==
    /\ out.pc = "open"
    /\ out.chunks = 0 /\ out.docs = <<>>
    /\ out' = [out EXCEPT !.given = tiles,
                          !.docs = <<FormatBatch(tiles, out.includeStats)>>,
                          !.direct = TRUE]
    /\ UNCHANGED <<job, runs, coord, fetch, call>>

\* FileWriter.Close
CloseWriter ==
    /\ out.pc = "open"
    /\ out' = [out EXCEPT !.pc = "closed"]
    /\ UNCHANGED <<job, runs, coord, fetch, call>>

InitWrite ==
    /\ \E includeStats \in BOOLEAN :
          out = [pc |-> "open",
                 includeStats |-> includeStats,   \* WriterConfig.Metadata
                 chunks |-> 0,      \* chunks that went through ProcessChunk
                 given |-> <<>>,    \* the tiles handed to the writer so far
                 docs |-> <<>>,     \* the documents in the file, in order
                 direct |-> FALSE]  \* WriteBatch was called on its own
    /\ job = NewJob(<< >>, JobConfig(DefaultConcurrency, 1, 1, FALSE, FALSE))
    /\ runs = << >>
    /\ coord = NoCoord
    /\ fetch = NoFetch
    /\ call = NoCall

NextWrite ==
    \/ \E results \in TileSeqs(ConverterTiles \cup {ErrorTile(1, 0, 1)}) :
          ChunkWrite(results)
    \/ \E tiles \in TileSeqs(WriteTiles) : WriteBatch(tiles)
    \/ CloseWriter

SpecWrite == InitWrite /\ [][NextWrite]_vars

----------------------------------------------------------------------------
(* SpecCLI: how convert and batch choose their source *)

\* Config.DetermineSourceType
DetermineSourceType(cfg) ==
    IF ~cfg.AutoDetect
    THEN IF cfg.Type = "local" THEN "local" ELSE "http"
    ELSE IF cfg.BasePath # <<>> /\ cfg.BaseURL = <<>> THEN "local"
    ELSE IF cfg.BaseURL # <<>> /\ cfg.BasePath = <<>> THEN "http"
    ELSE IF cfg.DefaultType = "local" THEN "local"
    ELSE "http"

\* validateSource: TRUE when it returns nil
validateSource(cfg) ==
    /\ cfg.Type \in {"http", "local", "auto"}
    /\ cfg.DefaultType \in {"http", "local"}

\* validateLocal: base_path, when set, must exist
validateLocal(cfg) == cfg.BasePath = <<>> \/ cfg.BasePathIsDir

\* validateOutput, for a valid output.format
validateOutput(cfg) == ~(~cfg.Stdout /\ cfg.Directory = <<>>)

\* validateSourceCombination
validateSourceCombination(cfg) ==
    IF DetermineSourceType(cfg) = "http" THEN cfg.BaseURL # <<>>
    ELSE cfg.BasePath # <<>> /\ cfg.BasePathIsDir

\* config.Validate, with valid server, batch, network and logging sections
Validate(cfg) ==
    /\ validateSource(cfg)
    /\ validateLocal(cfg)
    /\ validateOutput(cfg)
    /\ validateSourceCombination(cfg)

\* FetcherFactory.ValidateConfiguration, the templates having their defaults
ValidateConfiguration(cfg, sourceType) ==
    IF sourceType = "http" THEN cfg.BaseURL # <<>>
    ELSE IF sourceType = "local"
    THEN cfg.BasePath # <<>> /\ (DetermineSourceType(cfg) = "local" => cfg.BasePathIsDir)
    ELSE FALSE

\* FetcherFactory.CreateFetcherForType: the fetcher, or "error"
CreateFetcherForType(cfg, sourceType) ==
    IF sourceType = "http" THEN IF cfg.BaseURL = <<>> THEN "error" ELSE "HTTPFetcher"
    ELSE IF sourceType = "local"
    THEN IF cfg.BasePath = <<>> THEN "error" ELSE "LocalFetcher"
    ELSE "error"

\* the configurations viper hands to config.Load
CLIConfigInputs ==
    [Type : {"auto", "http", "local"}, DefaultType : {"http", "local"},
     AutoDetect : BOOLEAN,
     BaseURL : {<<>>, << Lit("https:"), Lit(""), Lit("tiles.example.org"), Lit("v1") >>},
     BasePath : {<<>>, << Lit(""), Lit("data"), Lit("tiles") >>},
     BasePathIsDir : BOOLEAN, Stdout : BOOLEAN,
     Directory : {<<>>, << Lit("out") >>}]

\* config.Load at the top of runConvert and runBatch
CLILoad ==
    /\ call.fn \in {"convert", "batch"} /\ call.pc = "load"
    /\ call' = [call EXCEPT !.pc = IF Validate(call.cfg) THEN "source" ELSE "failed",
                            !.failedAt = IF Validate(call.cfg) THEN @ ELSE "load"]
    /\ UNCHANGED <<job, runs, coord, fetch, out>>

\* cfg after "if sourceTypeOverride != ''": Source.Type is overwritten
Override(cfg, sourceTypeOverride) ==
    IF sourceTypeOverride = "" THEN cfg ELSE [cfg EXCEPT !.Type = sourceTypeOverride]

\* runConvert, lines 99-151: the override and the source type of the request
ConvertSource ==
    /\ call.fn = "convert" /\ call.pc = "source"
    /\ LET cfg == Override(call.cfg, call.override)
           st == IF call.input = "url" THEN "http"
                 ELSE IF call.input = "file" THEN "local"
                 ELSE DetermineSourceType(cfg)
           baseOK == call.input = "coords" =>
                        IF st = "http" THEN cfg.BaseURL # <<>> ELSE cfg.BasePath # <<>>
       IN call' = [call EXCEPT !.cfg = cfg, !.sourceType = st,
                               !.pc = IF baseOK THEN "validate" ELSE "failed",
                               !.failedAt = IF baseOK THEN @ ELSE "source"]
    /\ UNCHANGED <<job, runs, coord, fetch, out>>

\* runBatch, lines 120-132: the override and cfg.DetermineSourceType()
BatchSource ==
    /\ call.fn = "batch" /\ call.pc = "source"
    /\ LET cfg == Override(call.cfg, call.override)
       IN call' = [call EXCEPT !.cfg = cfg, !.sourceType = DetermineSourceType(cfg),
                               !.pc = "validate"]
    /\ UNCHANGED <<job, runs, coord, fetch, out>>

\* factory.ValidateConfiguration(sourceType)
CLIValidate ==
    /\ call.fn \in {"convert", "batch"} /\ call.pc = "validate"
    /\ LET ok == ValidateConfiguration(call.cfg, call.sourceType)
       IN call' = [call EXCEPT !.pc = IF ok THEN "create" ELSE "failed",
                               !.failedAt = IF ok THEN @ ELSE "validate"]
    /\ UNCHANGED <<job, runs, coord, fetch, out>>

\* factory.CreateFetcherForType(sourceType)
CLICreate ==
    /\ call.fn \in {"convert", "batch"} /\ call.pc = "create"
    /\ LET f == CreateFetcherForType(call.cfg, call.sourceType)
       IN call' = [call EXCEPT !.fetcher = f,
                               !.pc = IF f = "error" THEN "failed" ELSE "fetch",
                               !.failedAt = IF f = "error" THEN "create" ELSE @]
    /\ UNCHANGED <<job, runs, coord, fetch, out>>

InitCLI ==
    /\ \E cfg \in CLIConfigInputs, fn \in {"convert", "batch"},
          override \in {"", "http", "local"}, input \in {"url", "file", "coords"} :
          /\ fn = "batch" => input = "coords"
          /\ call = [fn |-> fn, pc |-> "load", cfg |-> cfg,
                     loaded |-> cfg,          \* the configuration before the override
                     override |-> override,   \* --source-type
                     input |-> input,         \* --url, --file, or coordinates / ranges
                     sourceType |-> "none", fetcher |-> "none", failedAt |-> "none"]
    /\ job = NewJob(<< >>, JobConfig(DefaultConcurrency, 1, 1, FALSE, FALSE))
    /\ runs = << >>
    /\ coord = NoCoord
    /\ fetch = NoFetch
    /\ out = NoOut

NextCLI == CLILoad \/ ConvertSource \/ BatchSource \/ CLIValidate \/ CLICreate

SpecCLI == InitCLI /\ [][NextCLI]_vars

\* SpecDetect: DetermineSourceType called on any configuration
CallDetermineSourceType ==
    /\ call.fn = "DetermineSourceType" /\ call.pc = "call"
    /\ call' = [call EXCEPT !.pc = "returned", !.result = DetermineSourceType(call.cfg)]
    /\ UNCHANGED <<job, runs, coord, fetch, out>>

InitDetect ==
    /\ \E cfg \in CLIConfigInputs :
          call = [fn |-> "DetermineSourceType", pc |-> "call", cfg |-> cfg,
                  result |-> "none"]
    /\ job = NewJob(<< >>, JobConfig(DefaultConcurrency, 1, 1, FALSE, FALSE))
    /\ runs = << >>
    /\ coord = NoCoord
    /\ fetch = NoFetch
    /\ out = NoOut

NextDetect == CallDetermineSourceType

SpecDetect == InitDetect /\ [][NextDetect]_vars

----------------------------------------------------------------------------
(* SpecEnum: the tiles of a batch job, counted and enumerated *)

\* the largest zoom level of a range given to the batch command
EnumMaxZoom == 2
\* the largest x or y of a range given to the batch command
EnumMaxCoord == 2

\* tile.NewTileRange: the six bounds, stored as they are given
NewTileRange(minZ, maxZ, minX, maxX, minY, maxY) ==
    [MinZ |-> minZ, MaxZ |-> maxZ, MinX |-> minX, MaxX |-> maxX,
     MinY |-> minY, MaxY |-> maxY]

\* the loop of TileRange.Count: total += xRange * yRange for z := MinZ..MaxZ
RECURSIVE CountLoop(_, _, _)
CountLoop(tr, z, total) ==
    IF z > tr.MaxZ THEN total
    ELSE LET xRange == tr.MaxX - tr.MinX + 1
             yRange == tr.MaxY - tr.MinY + 1
         IN CountLoop(tr, z + 1, total + xRange * yRange)

\* a count of one zoom level of the range only
Count_OneZoom(tr) == (tr.MaxX - tr.MinX + 1) * (tr.MaxY - tr.MinY + 1)

\* TileRange.Count
Count(tr) == CountLoop(tr, tr.MinZ, 0)

\* runBatch: for _, tr := range tileRanges { totalTiles += tr.Count() }
RECURSIVE SumCount(_, _, _)
SumCount(ranges, i, total) ==
    IF i > Len(ranges) THEN total
    ELSE SumCount(ranges, i + 1, total + Count(ranges[i]))

\* generateTileRanges without a bounding box: the full extent of zoom level z
FullExtent(z) == NewTileRange(z, z, 0, (2 ^ z) - 1, 0, (2 ^ z) - 1)

\* the ranges a batch job is made of: any six bounds (parseTilesList and
\* generateTileRanges pass what they are given to NewTileRange), alone or
\* followed by the full extent of a zoom level
EnumRanges ==
    { NewTileRange(minZ, maxZ, minX, maxX, minY, maxY) :
        minZ \in 0 .. EnumMaxZoom, maxZ \in 0 .. EnumMaxZoom,
        minX \in 0 .. EnumMaxCoord, maxX \in 0 .. EnumMaxCoord,
        minY \in 0 .. EnumMaxCoord, maxY \in 0 .. EnumMaxCoord }

EnumJobInputs ==
    { << tr >> : tr \in EnumRanges }
    \cup { << tr, FullExtent(z) >> : tr \in EnumRanges, z \in 0 .. EnumMaxZoom }

\* runBatch, lines 196-278: the tiles are counted, the job is created and
\* handed to Process
RunBatchTiles ==
    /\ call.fn = "runBatch" /\ call.pc = "ranges"
    /\ call' = [call EXCEPT !.pc = "process",
                            !.totalTiles = SumCount(call.tileRanges, 1, 0)]
    /\ job' = NewJob(call.tileRanges, job.Config)
    /\ runs' = << NewRun("active") >>
    /\ UNCHANGED <<coord, fetch, out>>

InitEnum ==
    /\ \E ranges \in EnumJobInputs :
          call = [fn |-> "runBatch", pc |-> "ranges", tileRanges |-> ranges,
                  totalTiles |-> 0]
    /\ job = NewJob(<< >>, JobConfig(DefaultConcurrency, 1, 1, FALSE, FALSE))
    /\ runs = << >>
    /\ coord = NoCoord
    /\ fetch = NoFetch
    /\ out = NoOut

\* Process up to the work items: the chunks are the subject of Spec
NextEnum ==
    \/ RunBatchTiles
    \/ \E r \in DOMAIN runs : ProcessStart(r)
    \/ \E r \in DOMAIN runs : ProcessGenerate(r)

SpecEnum == InitEnum /\ [][NextEnum]_vars

----------------------------------------------------------------------------
(* SpecLayers: the layer names of a decoded tile *)

\* the largest number of layers of a decoded tile
MaxLayers == 4

\* layer names, in ascending order of Go's comparison of strings
LayerNameOrder == << "boundaries", "places", "roads", "water", "zones" >>

\* the layer names of the tiles of the model
LayerNameInputs == { LayerNameOrder[i] : i \in 1 .. MaxLayers }

\* the orders in which a range statement may visit the keys of a map: the Go
\* specification leaves the order unspecified, so every order is possible
RangeOrders(keys) ==
    { f \in [1 .. Cardinality(keys) -> keys] :
        \A i, j \in 1 .. Cardinality(keys) : i # j => f[i] # f[j] }

\* DecodedTile.GetLayerNames: the names appended in the order of the range
\* over dt.Layers; the set of the slices it may return
GetLayerNames(layers) == RangeOrders(layers)

\* a direct call of GetLayerNames on a decoded tile
CallGetLayerNames ==
    /\ call.fn = "layers" /\ call.pc = "decoded"
    /\ \E names \in GetLayerNames(call.layers) :
          call' = [call EXCEPT !.pc = "names", !.names = names]
    /\ UNCHANGED <<job, runs, coord, fetch, out>>

\* Converter.Convert: ConversionMetadata{Layers: decodedTile.GetLayerNames()}
ConvertMetadata ==
    /\ call.fn = "layers" /\ call.pc = "decoded"
    /\ \E names \in GetLayerNames(call.layers) :
          call' = [call EXCEPT !.pc = "converted", !.conversion = names]
    /\ UNCHANGED <<job, runs, coord, fetch, out>>

\* MVTProcessor.Process after Convert: TileMetadata{Layers: metadata.Layers}
ProcessMetadata ==
    /\ call.fn = "layers" /\ call.pc = "converted"
    /\ call' = [call EXCEPT !.pc = "processed", !.tile = call.conversion]
    /\ UNCHANGED <<job, runs, coord, fetch, out>>

InitLayers ==
    /\ \E layers \in SUBSET LayerNameInputs :
          call = [fn |-> "layers", pc |-> "decoded", layers |-> layers,
                  names |-> << >>, conversion |-> << >>, tile |-> << >>]
    /\ job = NewJob(<< >>, JobConfig(DefaultConcurrency, 1, 1, FALSE, FALSE))
    /\ runs = << >>
    /\ coord = NoCoord
    /\ fetch = NoFetch
    /\ out = NoOut

NextLayers ==
    \/ CallGetLayerNames
    \/ ConvertMetadata
    \/ ProcessMetadata

SpecLayers == InitLayers /\ [][NextLayers]_vars

----------------------------------------------------------------------------
(* SpecPayload: the payload of a tile on its way to the writer *)

\* the largest number of bytes of a fetched payload
MaxPayload == 2

\* the payloads a fetch returns: byte strings of 0..MaxPayload bytes
PayloadInputs ==
    UNION { [1 .. n -> {0, 1}] : n \in 0 .. MaxPayload }

\* what the decoding of a payload that is not empty meets: mvt.Unmarshal
\* fails, decodeLayer fails, or the tile is decoded
DecodeOutcomes == {"unmarshal", "layer", "ok"}

\* An error is the sequence of its messages, the wrapping message first
\* (fmt.Errorf("...: %w", err)); nil is the empty sequence.
Nil == << >>
Errorf(msg, err) == << msg >> \o err

\* Decoder.Decode: the error it returns
Decode(data, outcome) ==
    IF Len(data) = 0 THEN Errorf("empty tile data", Nil)
    ELSE IF outcome = "unmarshal" THEN Errorf("failed to unmarshal MVT data", Nil)
    ELSE IF outcome = "layer" THEN Errorf("failed to decode layer", Nil)
    ELSE Nil

\* Converter.Convert: the error it returns
Convert(data, outcome) ==
    LET err == Decode(data, outcome)
    IN IF err # Nil THEN Errorf("failed to decode MVT", err) ELSE Nil

\* a tile.ProcessedTile: its Error, whether it has Data, Metadata.Size
ProcessedTile(error, hasData, size) ==
    [Error |-> error, Data |-> hasData, Size |-> size]

NoTile == ProcessedTile(Nil, FALSE, -1)

\* a Process that takes an empty payload for a tile without features
MVTProcessorProcess_EmptyOK(response, outcome) ==
    IF response.Error # Nil
    THEN [tile |-> ProcessedTile(Errorf("tile fetch failed", response.Error), FALSE, 0),
          err  |-> response.Error]
    ELSE IF Len(response.Data) # 0 /\ Convert(response.Data, outcome) # Nil
    THEN [tile |-> ProcessedTile(Errorf("MVT conversion failed",
                                        Convert(response.Data, outcome)), FALSE, 0),
          err  |-> Convert(response.Data, outcome)]
    ELSE [tile |-> ProcessedTile(Nil, TRUE, Len(response.Data)), err |-> Nil]

\* MVTProcessor.Process: the ProcessedTile and the error it returns
MVTProcessorProcess(response, outcome) ==
    IF response.Error # Nil
    THEN [tile |-> ProcessedTile(Errorf("tile fetch failed", response.Error), FALSE, 0),
          err  |-> response.Error]
    ELSE IF Len(response.Data) = 0
    THEN [tile |-> ProcessedTile(Errorf("empty tile data received", Nil), FALSE, 0),
          err  |-> Errorf("empty tile data for tile", Nil)]
    ELSE IF Convert(response.Data, outcome) # Nil
    THEN [tile |-> ProcessedTile(Errorf("MVT conversion failed",
                                        Convert(response.Data, outcome)), FALSE, 0),
          err  |-> Convert(response.Data, outcome)]
    ELSE [tile |-> ProcessedTile(Nil, TRUE, Len(response.Data)), err |-> Nil]

\* the TileResponse of a fetch that returned data and no error
DataResponse(data) == [Data |-> data, Error |-> Nil]

\* a call that has not been made, or has returned nothing yet
NewPayload(cmd) ==
    [fn        |-> "payload",
     cmd       |-> cmd,        \* "batch", "convert" or "decode"
     pc        |-> "attempt",
     attempt   |-> 0,          \* the loop variable of processWorkItem
     processed |-> FALSE,      \* the last attempt called MVTProcessor.Process
     data      |-> << >>,      \* response.Data of that call
     tile      |-> NoTile,     \* the ProcessedTile it returned
     err       |-> Nil,        \* the error it returned
     result    |-> [Error |-> Nil, Tile |-> NoTile],  \* the WorkResult
     written   |-> << >>]      \* the tiles handed to the writer

\* a test calls Decoder.Decode
DecodeCall(data, outcome) ==
    /\ call.fn = "payload" /\ call.cmd = "decode" /\ call.pc = "attempt"
    /\ call' = [call EXCEPT !.pc = "done", !.data = data,
                            !.err = Decode(data, outcome)]
    /\ UNCHANGED <<job, runs, coord, fetch, out>>

\* one iteration of the loop of processWorkItem: bp.fetcher.Fetch, then
\* bp.processor.Process; fetchOK is whether Fetch returns no error
PayloadAttempt(fetchOK, data, outcome) ==
    /\ call.fn = "payload" /\ call.cmd = "batch" /\ call.pc = "attempt"
    /\ call.attempt <= BatchMaxRetries
    /\ IF ~fetchOK
       THEN call' = [call EXCEPT !.attempt = @ + 1, !.processed = FALSE,
                                 !.data = << >>, !.tile = NoTile,
                                 !.result.Error = Errorf("fetch failed", Nil)]
       ELSE LET got == MVTProcessorProcess(DataResponse(data), outcome)
            IN IF got.err # Nil
               THEN call' = [call EXCEPT
                        !.attempt = @ + 1, !.processed = TRUE, !.data = data,
                        !.tile = got.tile, !.err = got.err,
                        !.result.Error = Errorf("process failed", got.err)]
               ELSE call' = [call EXCEPT
                        !.pc = "collect", !.processed = TRUE, !.data = data,
                        !.tile = got.tile, !.err = Nil,
                        !.result = [Error |-> Nil, Tile |-> got.tile]]
    /\ UNCHANGED <<job, runs, coord, fetch, out>>

\* the loop of processWorkItem ends: the WorkResult of the last error
PayloadExhausted ==
    /\ call.fn = "payload" /\ call.cmd = "batch" /\ call.pc = "attempt"
    /\ ~(call.attempt <= BatchMaxRetries)
    /\ call' = [call EXCEPT !.pc = "collect", !.result.Tile = NoTile]
    /\ UNCHANGED <<job, runs, coord, fetch, out>>

\* ProcessChunk, lines 516-540: the result is collected and the processed
\* tiles go to writer.WriteBatch
PayloadCollect ==
    /\ call.fn = "payload" /\ call.cmd = "batch" /\ call.pc = "collect"
    /\ LET processedTiles ==
               IF call.result.Error # Nil THEN << >>
               ELSE IF call.result.Tile # NoTile THEN << call.result.Tile >>
               ELSE << >>
       IN call' = [call EXCEPT
              !.pc = "done",
              !.written = IF Len(processedTiles) > 0 THEN processedTiles ELSE @]
    /\ UNCHANGED <<job, runs, coord, fetch, out>>

\* runConvert, lines 185-226: FetchWithRetry, Process, writer.Write
ConvertPayload(fetchOK, data, outcome) ==
    /\ call.fn = "payload" /\ call.cmd = "convert" /\ call.pc = "attempt"
    /\ IF ~fetchOK
       THEN call' = [call EXCEPT !.pc = "done",
                                 !.result.Error = Errorf("failed to fetch tile", Nil)]
       ELSE LET got == MVTProcessorProcess(DataResponse(data), outcome)
            IN IF got.err # Nil
               THEN call' = [call EXCEPT
                        !.pc = "done", !.processed = TRUE, !.data = data,
                        !.tile = got.tile, !.err = got.err,
                        !.result.Error = Errorf("failed to process tile", got.err)]
               ELSE call' = [call EXCEPT
                        !.pc = "done", !.processed = TRUE, !.data = data,
                        !.tile = got.tile, !.err = Nil,
                        !.result = [Error |-> Nil, Tile |-> got.tile],
                        !.written = << got.tile >>]
    /\ UNCHANGED <<job, runs, coord, fetch, out>>

InitPayload ==
    /\ \E cmd \in {"batch", "convert", "decode"} : call = NewPayload(cmd)
    /\ job = NewJob(<< >>, JobConfig(DefaultConcurrency, 1, 1, FALSE, FALSE))
    /\ runs = << >>
    /\ coord = NoCoord
    /\ fetch = NoFetch
    /\ out = NoOut

NextPayload ==
    \/ \E data \in PayloadInputs, outcome \in DecodeOutcomes :
          DecodeCall(data, outcome)
    \/ \E fetchOK \in BOOLEAN, data \in PayloadInputs, outcome \in DecodeOutcomes :
          PayloadAttempt(fetchOK, data, outcome)
    \/ PayloadExhausted
    \/ PayloadCollect
    \/ \E fetchOK \in BOOLEAN, data \in PayloadInputs, outcome \in DecodeOutcomes :
          ConvertPayload(fetchOK, data, outcome)

SpecPayload == InitPayload /\ [][NextPayload]_vars

----------------------------------------------------------------------------
(* SpecValidate: the two validations of tile coordinates *)

\* the largest zoom level given to the validations
ValidateMaxZ == 23

\* TileID.Validate with maxTile itself accepted for X and Y
TileIDValidate_Inclusive(tid) ==
    /\ ~(tid.Z < 0 \/ tid.Z > MaxZoomLevel)
    /\ ~(tid.X < 0 \/ tid.X > 2 ^ tid.Z)
    /\ ~(tid.Y < 0 \/ tid.Y > 2 ^ tid.Z)

\* TileID.Validate: TRUE when it returns nil
TileIDValidate(tid) ==
    /\ ~(tid.Z < 0 \/ tid.Z > MaxZoomLevel)
    /\ LET maxTile == 2 ^ tid.Z
       IN /\ ~(tid.X < 0 \/ tid.X >= maxTile)
          /\ ~(tid.Y < 0 \/ tid.Y >= maxTile)

\* the zoom levels given to the validations
ZoomInputs == -1 .. ValidateMaxZ

\* the x and y given to them: -1, and the last tile of every zoom level and
\* the one after it
CoordInputs ==
    {-1} \cup { (2 ^ k) - 1 : k \in 0 .. ValidateMaxZ }
         \cup { 2 ^ k : k \in 0 .. ValidateMaxZ }

\* tile.ValidateCoordinates(z, x, y) is called
CallValidateCoordinates ==
    /\ call.fn = "validate" /\ call.tile = "none"
    /\ call' = [call EXCEPT !.tile =
                  IF ValidateCoordinates(call.z, call.x, call.y) THEN "nil" ELSE "error"]
    /\ UNCHANGED <<job, runs, coord, fetch, out>>

\* TileID{z, x, y}.Validate() is called
CallTileIDValidate ==
    /\ call.fn = "validate" /\ call.mvt = "none"
    /\ call' = [call EXCEPT !.mvt =
                  IF TileIDValidate([Z |-> call.z, X |-> call.x, Y |-> call.y])
                  THEN "nil" ELSE "error"]
    /\ UNCHANGED <<job, runs, coord, fetch, out>>

InitValidate ==
    /\ \E z \in ZoomInputs, x \in CoordInputs, y \in CoordInputs :
          call = [fn |-> "validate", z |-> z, x |-> x, y |-> y,
                  tile |-> "none",   \* what tile.ValidateCoordinates returned
                  mvt  |-> "none"]   \* what mvt.TileID.Validate returned
    /\ job = NewJob(<< >>, JobConfig(DefaultConcurrency, 1, 1, FALSE, FALSE))
    /\ runs = << >>
    /\ coord = NoCoord
    /\ fetch = NoFetch
    /\ out = NoOut

NextValidate ==
    \/ CallValidateCoordinates
    \/ CallTileIDValidate

SpecValidate == InitValidate /\ [][NextValidate]_vars

----------------------------------------------------------------------------
(* SpecFeature: a decoded feature converted to a GeoJSON feature *)

\* the largest number of entries of ConversionOptions.PropertyFilter
MaxFilter == 2

\* the keys and values of the tags of the features of the model
TagKeys == {"name", "type", "_layer"}
TagValues == {"Test", "example"}

\* DecodedFeature.Tags: a map from some of the keys to values
TagInputs == UNION { [keys -> TagValues] : keys \in SUBSET TagKeys }

\* ConversionOptions.PropertyFilter: a slice of at most MaxFilter names
FilterInputs ==
    UNION { [1 .. n -> {"name", "type", "population"}] : n \in 0 .. MaxFilter }

\* a membership test that looks at the first element of the slice only
contains_First(slice, item) == Len(slice) > 0 /\ slice[1] = item

\* Converter.contains
contains(slice, item) == \E i \in 1 .. Len(slice) : slice[i] = item

\* the tags convertFeatureToGeoJSON copies: those the loop does not skip
CopiedKeys(tags, propertyFilter) ==
    { key \in DOMAIN tags :
        ~(Len(propertyFilter) > 0 /\ ~contains(propertyFilter, key)) }

\* Converter.convertFeatureToGeoJSON: the ID and the Properties of the
\* geojson.Feature it returns (it returns no error)
convertFeatureToGeoJSON(feature, layerName, propertyFilter) ==
    LET copied == CopiedKeys(feature.Tags, propertyFilter)
    IN [ID |-> IF feature.ID # "nil" THEN feature.ID ELSE "nil",
        Properties |->
            [key \in copied \cup {"_layer"} |->
                IF key = "_layer" THEN layerName ELSE feature.Tags[key]]]

\* convertFeatureToGeoJSON is called
CallConvertFeature ==
    /\ call.fn = "convertFeatureToGeoJSON" /\ call.pc = "call"
    /\ call' = [call EXCEPT
          !.pc = "returned",
          !.result = convertFeatureToGeoJSON(call.feature, call.layerName,
                                             call.propertyFilter)]
    /\ UNCHANGED <<job, runs, coord, fetch, out>>

InitFeature ==
    /\ \E tags \in TagInputs, id \in {"nil", "test-feature"},
          layerName \in {"test-layer", "roads"}, propertyFilter \in FilterInputs :
          call = [fn |-> "convertFeatureToGeoJSON", pc |-> "call",
                  feature |-> [ID |-> id, Tags |-> tags],
                  layerName |-> layerName,
                  propertyFilter |-> propertyFilter,
                  result |-> [ID |-> "nil", Properties |-> << >>]]
    /\ job = NewJob(<< >>, JobConfig(DefaultConcurrency, 1, 1, FALSE, FALSE))
    /\ runs = << >>
    /\ coord = NoCoord
    /\ fetch = NoFetch
    /\ out = NoOut

NextFeature == CallConvertFeature

SpecFeature == InitFeature /\ [][NextFeature]_vars

----------------------------------------------------------------------------
(* SpecGeom: applyGeometryTransform *)

\* the largest number of elements of a slice of a geometry
GeomMaxLen == 2

\* orb.Point{x, y} is <<x, y>>; a geometry is its variant with its value, g,
\* a point or a sequence nested as the variant of orb is
Geometry(type, g) == [type |-> type, g |-> g]

\* the point functions of the model: the identity, a translation, a swap
TransformInputs == {"identity", "translate", "swap"}

\* transform(point)
ApplyTransform(transform, point) ==
    CASE transform = "identity"  -> point
      [] transform = "translate" -> << point[1] + 1, point[2] + 1 >>
      [] OTHER                   -> << point[2], point[1] >>

\* the cases MultiPoint, LineString and Ring: result[i] = transform(point)
TransformPoints(points, transform) ==
    [i \in 1 .. Len(points) |-> ApplyTransform(transform, points[i])]

\* the case MultiLineString: result[i] = the transformed LineString
TransformLines(lines, transform) ==
    [i \in 1 .. Len(lines) |-> TransformPoints(lines[i], transform)]

\* a transformation of the first ring of the polygon only
TransformPolygon_OuterOnly(rings, transform) ==
    [i \in 1 .. Min(Len(rings), 1) |-> TransformPoints(rings[i], transform)]

\* the case Polygon: result[i] = the transformed Ring
TransformPolygon(rings, transform) ==
    [i \in 1 .. Len(rings) |-> TransformPoints(rings[i], transform)]

\* the case MultiPolygon: result[i] = the transformed Polygon
TransformPolygons(polygons, transform) ==
    [i \in 1 .. Len(polygons) |-> TransformPolygon(polygons[i], transform)]

\* applyGeometryTransform
applyGeometryTransform(geom, transform) ==
    CASE geom.type = "Point" ->
            Geometry("Point", ApplyTransform(transform, geom.g))
      [] geom.type = "MultiPoint" ->
            Geometry("MultiPoint", TransformPoints(geom.g, transform))
      [] geom.type = "LineString" ->
            Geometry("LineString", TransformPoints(geom.g, transform))
      [] geom.type = "MultiLineString" ->
            Geometry("MultiLineString", TransformLines(geom.g, transform))
      [] geom.type = "Ring" ->
            Geometry("Ring", TransformPoints(geom.g, transform))
      [] geom.type = "Polygon" ->
            Geometry("Polygon", TransformPolygon(geom.g, transform))
      [] geom.type = "MultiPolygon" ->
            Geometry("MultiPolygon", TransformPolygons(geom.g, transform))
      [] OTHER -> geom

\* the sequences of at most GeomMaxLen elements of S
SeqsUpTo(S) == UNION { [1 .. n -> S] : n \in 0 .. GeomMaxLen }

\* the points, rings and polygons the geometries of the model are made of
PointInputs == { <<1, 2>>, <<3, 4>> }
RingInputs == { << >>, << <<1, 2>> >>, << <<1, 2>>, <<3, 4>>, <<1, 2>> >> }
PolygonInputs ==
    { << >>, << << >> >>, << << <<1, 2>>, <<3, 4>>, <<1, 2>> >> >>,
      << << <<1, 2>>, <<3, 4>>, <<1, 2>> >>, << <<3, 4>> >> >> }

\* the variants applyGeometryTransform has a case for, Ring apart
GeometryTypes ==
    {"Point", "MultiPoint", "LineString", "MultiLineString", "Polygon",
     "MultiPolygon"}

\* the values of the geometries of a variant
GeometryInputs(type) ==
    CASE type = "Point" -> PointInputs
      [] type \in {"MultiPoint", "LineString"} -> SeqsUpTo(PointInputs)
      [] type \in {"MultiLineString", "Polygon"} -> SeqsUpTo(RingInputs)
      [] OTHER -> SeqsUpTo(PolygonInputs)

\* applyGeometryTransform(geom, transform) is called
CallApplyGeometryTransform ==
    /\ call.fn = "applyGeometryTransform" /\ call.pc = "call"
    /\ call' = [call EXCEPT
          !.pc = "returned",
          !.result = applyGeometryTransform(call.geom, call.transform)]
    /\ UNCHANGED <<job, runs, coord, fetch, out>>

InitGeom ==
    /\ \E type \in GeometryTypes, transform \in TransformInputs :
        \E g \in GeometryInputs(type) :
          call = [fn |-> "applyGeometryTransform", pc |-> "call",
                  geom |-> Geometry(type, g), transform |-> transform,
                  result |-> Geometry("none", << >>)]
    /\ job = NewJob(<< >>, JobConfig(DefaultConcurrency, 1, 1, FALSE, FALSE))
    /\ runs = << >>
    /\ coord = NoCoord
    /\ fetch = NoFetch
    /\ out = NoOut

NextGeom == CallApplyGeometryTransform

SpecGeom == InitGeom /\ [][NextGeom]_vars

----------------------------------------------------------------------------
(* SpecOptions: the conversion options of a converter *)

\* the coordinate system constants
CoordSystemWebMercator == "web-mercator"
CoordSystemWGS84 == "wgs84"

\* a ConversionOptions
ConversionOptions(includeMetadata, layerFilter, propertyFilter, simplify, system) ==
    [IncludeMetadata |-> includeMetadata, LayerFilter |-> layerFilter,
     PropertyFilter |-> propertyFilter, SimplifyGeometry |-> simplify,
     CoordinateSystem |-> system]

\* the values of ConversionOptions.CoordinateSystem of the model
CoordinateSystemInputs ==
    {CoordSystemWebMercator, CoordSystemWGS84, "invalid", "", "WGS84", "epsg:4326"}

\* a validation that takes the unset coordinate system for the default one
ValidateConversionOptions_AcceptEmpty(options) ==
    IF options.CoordinateSystem # CoordSystemWebMercator
       /\ options.CoordinateSystem # CoordSystemWGS84
       /\ options.CoordinateSystem # ""
    THEN Errorf("invalid coordinate system", Nil)
    ELSE Nil

\* ValidateConversionOptions: the error it returns
ValidateConversionOptions(options) ==
    IF options.CoordinateSystem # CoordSystemWebMercator
       /\ options.CoordinateSystem # CoordSystemWGS84
    THEN Errorf("invalid coordinate system", Nil)
    ELSE Nil

\* a *Converter: nil, or one with its options
Converter(options) == [isNil |-> FALSE, options |-> options]
NilConverter ==
    [isNil |-> TRUE, options |-> ConversionOptions(FALSE, << >>, << >>, FALSE, "")]

\* NewConverter: the converter it returns
NewConverter ==
    Converter(ConversionOptions(FALSE, << >>, << >>, FALSE, CoordSystemWebMercator))

\* NewConverterWithOptions: the converter and the error it returns
NewConverterWithOptions(options) ==
    IF ValidateConversionOptions(options) # Nil
    THEN [converter |-> NilConverter,
          err |-> Errorf("invalid conversion options", ValidateConversionOptions(options))]
    ELSE [converter |-> Converter(options), err |-> Nil]

\* ValidateConversionOptions(options) is called
CallValidateConversionOptions ==
    /\ call.fn = "options" /\ ~call.validated.called
    /\ call' = [call EXCEPT !.validated =
                   [called |-> TRUE, err |-> ValidateConversionOptions(call.options)]]
    /\ UNCHANGED <<job, runs, coord, fetch, out>>

\* NewConverterWithOptions(options) is called
CallNewConverterWithOptions ==
    /\ call.fn = "options" /\ ~call.custom.called
    /\ LET got == NewConverterWithOptions(call.options)
       IN call' = [call EXCEPT !.custom =
                      [called |-> TRUE, converter |-> got.converter, err |-> got.err]]
    /\ UNCHANGED <<job, runs, coord, fetch, out>>

\* NewConverter() is called
CallNewConverter ==
    /\ call.fn = "options" /\ ~call.default.called
    /\ call' = [call EXCEPT !.default = [called |-> TRUE, converter |-> NewConverter]]
    /\ UNCHANGED <<job, runs, coord, fetch, out>>

InitOptions ==
    /\ \E includeMetadata \in BOOLEAN, simplify \in BOOLEAN,
          propertyFilter \in FilterInputs, system \in CoordinateSystemInputs :
          call = [fn |-> "options",
                  options |-> ConversionOptions(includeMetadata, << >>,
                                                propertyFilter, simplify, system),
                  validated |-> [called |-> FALSE, err |-> Nil],
                  custom |-> [called |-> FALSE, converter |-> NilConverter, err |-> Nil],
                  default |-> [called |-> FALSE, converter |-> NilConverter]]
    /\ job = NewJob(<< >>, JobConfig(DefaultConcurrency, 1, 1, FALSE, FALSE))
    /\ runs = << >>
    /\ coord = NoCoord
    /\ fetch = NoFetch
    /\ out = NoOut

NextOptions ==
    \/ CallValidateConversionOptions
    \/ CallNewConverterWithOptions
    \/ CallNewConverter

SpecOptions == InitOptions /\ [][NextOptions]_vars

----------------------------------------------------------------------------
(* SpecWorker: one worker of a chunk, attempt by attempt *)

\* the largest number of work items the worker finds in workChan
MaxWorkerItems == 2

\* a worker goroutine that has not received anything yet
NewWorker(items) ==
    [fn       |-> "worker",
     pc       |-> "receive",   \* "receive", "retry" (inside processWorkItem), "exit"
     ctx      |-> "active",    \* "active", "canceled" or "deadline"
     workChan |-> items,       \* items still in workChan
     attempt  |-> 0,           \* the loop variable of processWorkItem
     fetches  |-> 0,           \* bp.fetcher.Fetch calls started by the worker
     ok       |-> 0,           \* results sent with a Tile
     failed   |-> 0,           \* results sent with the last error of the attempts
     ctxErr   |-> 0]           \* results sent with ctx.Err()

\* one iteration of the loop of worker up to the end of the first attempt of
\* processWorkItem: the item is received, ctx.Done() is looked at, and when
\* the context is live Fetch and Process are called once
WorkerIteration(fetchOK, convOK) ==
    /\ call.fn = "worker" /\ call.pc = "receive"
    /\ call.workChan > 0
    /\ IF call.ctx # "active"
       THEN call' = [call EXCEPT !.workChan = @ - 1, !.ctxErr = @ + 1,
                                 !.pc = "exit"]
       ELSE IF fetchOK /\ convOK
       THEN call' = [call EXCEPT !.workChan = @ - 1, !.fetches = @ + 1,
                                 !.attempt = 0, !.ok = @ + 1]
       ELSE call' = [call EXCEPT !.workChan = @ - 1, !.fetches = @ + 1,
                                 !.attempt = 1, !.pc = "retry"]
    /\ UNCHANGED <<job, runs, coord, fetch, out>>

\* a later iteration of the loop of processWorkItem: sleep, Fetch, Process
WorkerRetry(fetchOK, convOK) ==
    /\ call.fn = "worker" /\ call.pc = "retry"
    /\ call.attempt <= BatchMaxRetries
    /\ IF fetchOK /\ convOK
       THEN call' = [call EXCEPT !.fetches = @ + 1, !.attempt = 0,
                                 !.ok = @ + 1, !.pc = "receive"]
       ELSE call' = [call EXCEPT !.fetches = @ + 1, !.attempt = @ + 1]
    /\ UNCHANGED <<job, runs, coord, fetch, out>>

\* the loop of processWorkItem ends and the worker sends the failed result
WorkerRetryExhausted ==
    /\ call.fn = "worker" /\ call.pc = "retry"
    /\ ~(call.attempt <= BatchMaxRetries)
    /\ call' = [call EXCEPT !.attempt = 0, !.failed = @ + 1, !.pc = "receive"]
    /\ UNCHANGED <<job, runs, coord, fetch, out>>

\* range workChan ends: the channel is closed and empty
WorkerChanClosed ==
    /\ call.fn = "worker" /\ call.pc = "receive"
    /\ call.workChan = 0
    /\ call' = [call EXCEPT !.pc = "exit"]
    /\ UNCHANGED <<job, runs, coord, fetch, out>>

\* the context of the job is cancelled, or its deadline passes
WorkerCtxDone(how) ==
    /\ call.fn = "worker" /\ call.pc # "exit"
    /\ call.ctx = "active"
    /\ call' = [call EXCEPT !.ctx = how]
    /\ UNCHANGED <<job, runs, coord, fetch, out>>

InitWorker ==
    /\ \E items \in 1 .. MaxWorkerItems : call = NewWorker(items)
    /\ job = NewJob(<< >>, JobConfig(DefaultConcurrency, 1, 1, FALSE, FALSE))
    /\ runs = << >>
    /\ coord = NoCoord
    /\ fetch = NoFetch
    /\ out = NoOut

NextWorker ==
    \/ \E fetchOK \in BOOLEAN, convOK \in BOOLEAN : WorkerIteration(fetchOK, convOK)
    \/ \E fetchOK \in BOOLEAN, convOK \in BOOLEAN : WorkerRetry(fetchOK, convOK)
    \/ WorkerRetryExhausted
    \/ WorkerChanClosed
    \/ \E how \in {"canceled", "deadline"} : WorkerCtxDone(how)

SpecWorker == InitWorker /\ [][NextWorker]_vars

----------------------------------------------------------------------------
(* SpecChunk: the goroutines of one ProcessChunk call, step by step *)

\* the largest number of work items of the chunk
MaxChunkItems == 2

\* the number of worker goroutines ProcessChunk starts for n work items
ChunkConcurrency(n) == Min(n, 10)

\* a WorkResult: the work item it is for and its Error ("nil" with a Tile,
\* "failed" after the attempts of processWorkItem, "ctx" for ctx.Err())
WorkResult(item, error) == [Item |-> item, Error |-> error]

\* a ProcessChunk call on n work items that has not run yet
NewChunkCall(n) ==
    [fn             |-> "ProcessChunk",
     pc             |-> "start",  \* "start", "collect", "write", "returned"
     ctx            |-> "active", \* "active" or "done"
     n              |-> n,        \* len(workItems)
     workChan       |-> << >>,    \* items in workChan, oldest first
     resultChan     |-> << >>,    \* results in resultChan, oldest first
     resultClosed   |-> FALSE,    \* close(resultChan) has run
     wg             |-> 0,        \* the counter of the WaitGroup
     workers        |-> << >>,    \* per worker goroutine: position and item held
     results        |-> << >>,    \* the results slice
     processedTiles |-> 0,        \* len(processedTiles)
     successCount   |-> 0,
     failureCount   |-> 0,
     err            |-> Nil]      \* the error ProcessChunk returns

\* ProcessChunk up to its collection loop: the items are sent to workChan,
\* the channel is closed, the worker goroutines and the goroutine that waits
\* for them are started
StartWorkers ==
    /\ call.fn = "ProcessChunk" /\ call.pc = "start"
    /\ call' = [call EXCEPT
           !.workChan = [i \in 1 .. call.n |-> i],
           !.wg = ChunkConcurrency(call.n),
           !.workers = [w \in 1 .. ChunkConcurrency(call.n) |->
                           [pc |-> "range", item |-> 0]],
           !.pc = "collect"]
    /\ UNCHANGED <<job, runs, coord, fetch, out>>

\* worker w at `for workItem := range workChan`: it receives the oldest item,
\* or leaves the loop when the closed channel is empty, and wg.Done() runs
WorkerRange(w) ==
    /\ call.fn = "ProcessChunk"
    /\ w \in DOMAIN call.workers
    /\ call.workers[w].pc = "range"
    /\ IF call.workChan # << >>
       THEN call' = [call EXCEPT
                !.workChan = Tail(@),
                !.workers[w] = [pc |-> "select", item |-> Head(call.workChan)]]
       ELSE call' = [call EXCEPT
                !.workers[w] = [pc |-> "exit", item |-> 0],
                !.wg = @ - 1]
    /\ UNCHANGED <<job, runs, coord, fetch, out>>

\* worker w at its select: with the context done it sends a result holding
\* ctx.Err() and returns, and wg.Done() runs; otherwise it goes on to
\* processWorkItem
WorkerSelect(w) ==
    /\ call.fn = "ProcessChunk"
    /\ w \in DOMAIN call.workers
    /\ call.workers[w].pc = "select"
    /\ IF call.ctx = "done"
       THEN /\ Len(call.resultChan) < call.n
            /\ call' = [call EXCEPT
                   !.resultChan = Append(@, WorkResult(call.workers[w].item, "ctx")),
                   !.workers[w] = [pc |-> "exit", item |-> 0],
                   !.wg = @ - 1]
       ELSE call' = [call EXCEPT !.workers[w].pc = "process"]
    /\ UNCHANGED <<job, runs, coord, fetch, out>>

\* worker w runs processWorkItem on its item and sends the result; ok is
\* whether one of the attempts succeeded
WorkerProcessItem(w, ok) ==
    /\ call.fn = "ProcessChunk"
    /\ w \in DOMAIN call.workers
    /\ call.workers[w].pc = "process"
    /\ Len(call.resultChan) < call.n
    /\ call' = [call EXCEPT
           !.resultChan = Append(@, WorkResult(call.workers[w].item,
                                               IF ok THEN "nil" ELSE "failed")),
           !.workers[w] = [pc |-> "range", item |-> 0]]
    /\ UNCHANGED <<job, runs, coord, fetch, out>>

\* the steps of worker goroutine w
WorkerStep(w) ==
    \/ WorkerRange(w)
    \/ WorkerSelect(w)
    \/ \E ok \in BOOLEAN : WorkerProcessItem(w, ok)

\* the goroutine `wg.Wait(); close(resultChan)`
WaitAndClose ==
    /\ call.fn = "ProcessChunk" /\ call.pc # "start"
    /\ ~call.resultClosed
    /\ call.wg = 0
    /\ call' = [call EXCEPT !.resultClosed = TRUE]
    /\ UNCHANGED <<job, runs, coord, fetch, out>>

\* one iteration of `for result := range resultChan`
CollectResult_SuccessesOnly ==
    /\ call.fn = "ProcessChunk" /\ call.pc = "collect"
    /\ call.resultChan # << >>
    /\ LET result == Head(call.resultChan)
       IN call' = [call EXCEPT
              !.resultChan = Tail(@),
              !.results = IF result.Error # "nil" THEN @ ELSE Append(@, result),
              !.failureCount = IF result.Error # "nil" THEN @ + 1 ELSE @,
              !.successCount = IF result.Error # "nil" THEN @ ELSE @ + 1,
              !.processedTiles = IF result.Error # "nil" THEN @ ELSE @ + 1]
    /\ UNCHANGED <<job, runs, coord, fetch, out>>

\* one iteration of `for result := range resultChan`
CollectResult ==
    /\ call.fn = "ProcessChunk" /\ call.pc = "collect"
    /\ call.resultChan # << >>
    /\ LET result == Head(call.resultChan)
       IN call' = [call EXCEPT
              !.resultChan = Tail(@),
              !.results = Append(@, result),
              !.failureCount = IF result.Error # "nil" THEN @ + 1 ELSE @,
              !.successCount = IF result.Error # "nil" THEN @ ELSE @ + 1,
              !.processedTiles = IF result.Error # "nil" THEN @ ELSE @ + 1]
    /\ UNCHANGED <<job, runs, coord, fetch, out>>

\* the collection loop ends, resultChan being closed and empty: WriteBatch is
\* called when there are processed tiles, and ProcessChunk returns otherwise
CollectEnd ==
    /\ call.fn = "ProcessChunk" /\ call.pc = "collect"
    /\ call.resultChan = << >>
    /\ call.resultClosed
    /\ call' = [call EXCEPT
           !.pc = IF call.processedTiles > 0 THEN "write" ELSE "returned"]
    /\ UNCHANGED <<job, runs, coord, fetch, out>>

\* bp.writer.WriteBatch returns and ProcessChunk returns the ChunkResult,
\* with an error when the write failed
WriteProcessedTiles(writeOK) ==
    /\ call.fn = "ProcessChunk" /\ call.pc = "write"
    /\ call' = [call EXCEPT
           !.pc = "returned",
           !.err = IF writeOK THEN Nil
                   ELSE Errorf("failed to write batch", << "write" >>)]
    /\ UNCHANGED <<job, runs, coord, fetch, out>>

\* the steps of the goroutine that called ProcessChunk
ProcessChunkStep ==
    \/ StartWorkers
    \/ CollectResult
    \/ CollectEnd
    \/ \E writeOK \in BOOLEAN : WriteProcessedTiles(writeOK)

\* the context of the job is cancelled, or its deadline passes
ChunkCtxDone ==
    /\ call.fn = "ProcessChunk" /\ call.pc # "returned"
    /\ call.ctx = "active"
    /\ call' = [call EXCEPT !.ctx = "done"]
    /\ UNCHANGED <<job, runs, coord, fetch, out>>

InitChunk ==
    /\ \E n \in 1 .. MaxChunkItems : call = NewChunkCall(n)
    /\ job = NewJob(<< >>, JobConfig(DefaultConcurrency, 1, 1, FALSE, FALSE))
    /\ runs = << >>
    /\ coord = NoCoord
    /\ fetch = NoFetch
    /\ out = NoOut

NextChunk ==
    \/ ProcessChunkStep
    \/ \E w \in 1 .. MaxChunkItems : WorkerStep(w)
    \/ WaitAndClose
    \/ ChunkCtxDone

SpecChunk == InitChunk /\ [][NextChunk]_vars

\* SpecChunk with the scheduling of the Go runtime: a goroutine that can take
\* a step is eventually run. The sends never block (resultChan has room for
\* one result per item), and Fetch, Process and WriteBatch are taken to return
SpecChunkLive ==
    /\ SpecChunk
    /\ WF_vars(ProcessChunkStep)
    /\ WF_vars(WaitAndClose)
    /\ \A w \in 1 .. MaxChunkItems : WF_vars(WorkerStep(w))

----------------------------------------------------------------------------
(* SpecShared: the Process goroutines a coordinator starts on its processor *)

\* the largest number of jobs submitted to the coordinator
MaxSharedJobs == 2
\* the largest number of chunks of a job, and of work items of a chunk
MaxSharedChunks == 2
MaxSharedItems == 2

\* the goroutine SubmitJob starts for a job of the given number of chunks
NewProcessGoroutine(chunks) ==
    [pc       |-> "loop",  \* "loop", "workers", "write", "exit"
     chunks   |-> chunks,  \* chunks not handed to ProcessChunk yet
     workChan |-> 0,       \* items still in workChan
     idle     |-> 0,       \* workers running and not holding an item
     busy     |-> 0,       \* workers inside processWorkItem
     tiles    |-> 0]       \* len(processedTiles)

\* a coordinator over one processor, whose writer is bp.writer
NewSharedCoordinator ==
    [fn    |-> "coordinator",
     ctx   |-> "active",   \* c.ctx
     procs |-> << >>]      \* the goroutines running c.processor.Process

\* SubmitJob of a valid job with a new ID: the job is stored and a goroutine
\* calls c.processor.Process on it
SharedSubmitJob(chunks) ==
    /\ call.fn = "coordinator"
    /\ Len(call.procs) < MaxSharedJobs
    /\ call' = [call EXCEPT !.procs = Append(@, NewProcessGoroutine(chunks))]
    /\ UNCHANGED <<job, runs, coord, fetch, out>>

\* Process at its chunk loop: it returns when no chunk is left or the context
\* is done, and otherwise ProcessChunk starts one worker per item of the chunk
SharedProcessLoop(p, len) ==
    /\ call.fn = "coordinator"
    /\ p \in DOMAIN call.procs
    /\ call.procs[p].pc = "loop"
    /\ IF call.procs[p].chunks = 0 \/ call.ctx # "active"
       THEN call' = [call EXCEPT !.procs[p].pc = "exit"]
       ELSE call' = [call EXCEPT
                !.procs[p] = [pc |-> "workers",
                              chunks |-> call.procs[p].chunks - 1,
                              workChan |-> len,
                              idle |-> Min(len, 10),
                              busy |-> 0,
                              tiles |-> 0]]
    /\ UNCHANGED <<job, runs, coord, fetch, out>>

\* a worker receives an item, or finds workChan closed and empty and returns;
\* with the context done it sends ctx.Err() for the item and returns
SharedWorkerReceive(p) ==
    /\ call.fn = "coordinator"
    /\ p \in DOMAIN call.procs
    /\ call.procs[p].pc = "workers"
    /\ call.procs[p].idle > 0
    /\ IF call.procs[p].workChan = 0
       THEN call' = [call EXCEPT !.procs[p].idle = @ - 1]
       ELSE IF call.ctx # "active"
       THEN call' = [call EXCEPT !.procs[p].idle = @ - 1,
                                 !.procs[p].workChan = @ - 1]
       ELSE call' = [call EXCEPT !.procs[p].idle = @ - 1,
                                 !.procs[p].workChan = @ - 1,
                                 !.procs[p].busy = @ + 1]
    /\ UNCHANGED <<job, runs, coord, fetch, out>>

\* processWorkItem returns in a worker and the result is sent
SharedWorkerResult(p, tileOK) ==
    /\ call.fn = "coordinator"
    /\ p \in DOMAIN call.procs
    /\ call.procs[p].pc = "workers"
    /\ call.procs[p].busy > 0
    /\ call' = [call EXCEPT !.procs[p].busy = @ - 1,
                            !.procs[p].idle = @ + 1,
                            !.procs[p].tiles = IF tileOK THEN @ + 1 ELSE @]
    /\ UNCHANGED <<job, runs, coord, fetch, out>>

\* wg.Wait() has returned and resultChan is drained: ProcessChunk calls
\* bp.writer.WriteBatch when there are processed tiles, and returns otherwise
SharedCollected(p) ==
    /\ call.fn = "coordinator"
    /\ p \in DOMAIN call.procs
    /\ call.procs[p].pc = "workers"
    /\ call.procs[p].idle = 0 /\ call.procs[p].busy = 0
    /\ call' = [call EXCEPT
           !.procs[p].pc = IF call.procs[p].tiles > 0 THEN "write" ELSE "loop"]
    /\ UNCHANGED <<job, runs, coord, fetch, out>>

\* bp.writer.WriteBatch returns; Process goes on with the next chunk (with
\* FailOnError and a write error it returns)
SharedWriteBatchReturns(p, goOn) ==
    /\ call.fn = "coordinator"
    /\ p \in DOMAIN call.procs
    /\ call.procs[p].pc = "write"
    /\ call' = [call EXCEPT !.procs[p].pc = IF goOn THEN "loop" ELSE "exit"]
    /\ UNCHANGED <<job, runs, coord, fetch, out>>

\* Shutdown: c.cancel()
SharedShutdown ==
    /\ call.fn = "coordinator"
    /\ call.ctx = "active"
    /\ call' = [call EXCEPT !.ctx = "canceled"]
    /\ UNCHANGED <<job, runs, coord, fetch, out>>

InitShared ==
    /\ call = NewSharedCoordinator
    /\ job = NewJob(<< >>, JobConfig(DefaultConcurrency, 1, 1, FALSE, FALSE))
    /\ runs = << >>
    /\ coord = NoCoord
    /\ fetch = NoFetch
    /\ out = NoOut

NextShared ==
    \/ \E chunks \in 1 .. MaxSharedChunks : SharedSubmitJob(chunks)
    \/ \E p \in 1 .. MaxSharedJobs, len \in 1 .. MaxSharedItems :
          SharedProcessLoop(p, len)
    \/ \E p \in 1 .. MaxSharedJobs : SharedWorkerReceive(p)
    \/ \E p \in 1 .. MaxSharedJobs, tileOK \in BOOLEAN : SharedWorkerResult(p, tileOK)
    \/ \E p \in 1 .. MaxSharedJobs : SharedCollected(p)
    \/ \E p \in 1 .. MaxSharedJobs, goOn \in BOOLEAN : SharedWriteBatchReturns(p, goOn)
    \/ SharedShutdown

SpecShared == InitShared /\ [][NextShared]_vars

----------------------------------------------------------------------------
(* SpecLocks: the locks held while a Job's fields are written *)

\* the largest number of Process goroutines started for the job
MaxLockProcs == 2
\* the largest number of chunks of the job
MaxLockChunks == 2

\* the positions of Process where it holds bp.mutex and writes the job
ProcessWritePcs == {"startW", "totalW", "chunkW", "updateW", "completeW", "errorW"}

\* a coordinator and its processor; the job is not submitted yet
NewLocks(chunks) ==
    [fn      |-> "locks",
     cMutex  |-> 0,        \* c.mutex: 0 free, -1 the operation, or the goroutine
     bpMutex |-> 0,        \* bp.mutex: 0 free, or the goroutine holding it
     op      |-> "none",   \* the coordinator operation inside its critical section
     inJobs  |-> FALSE,    \* the job is in c.jobs
     ctx     |-> "active", \* c.ctx
     Status  |-> "pending",
     Resume  |-> TRUE,     \* job.Config.Resume
     chunks  |-> chunks,   \* the chunks of the job
     procs   |-> << >>]    \* the goroutines running c.processor.Process

\* a goroutine about to call Process
NewLockProc == [pc |-> "start", left |-> 0]

\* a coordinator operation that writes the job takes c.mutex and passes its
\* checks: SubmitJob, CancelJob, PauseJob, ResumeJob or Shutdown
LockOpBegin(name) ==
    /\ call.fn = "locks"
    /\ call.cMutex = 0
    /\ CASE name = "SubmitJob" -> ~call.inJobs
         [] name = "CancelJob" -> call.inJobs /\ call.Status \notin {"completed", "failed", "canceled"}
         [] name = "PauseJob"  -> call.inJobs /\ call.Status = "running"
         [] name = "ResumeJob" -> /\ call.inJobs
                                  /\ Len(call.procs) < MaxLockProcs
                                  /\ \/ call.Status = "paused"
                                     \/ (call.Status = "failed" /\ call.Resume)
         [] name = "Shutdown"  -> call.inJobs /\ call.ctx = "active"
    /\ call' = [call EXCEPT
           !.cMutex = -1, !.op = name,
           !.ctx = IF name = "Shutdown" THEN "canceled" ELSE @]
    /\ UNCHANGED <<job, runs, coord, fetch, out>>

\* the operation writes job.Status, starts its goroutine (SubmitJob,
\* ResumeJob) and releases c.mutex
LockOpEnd ==
    /\ call.fn = "locks"
    /\ call.op # "none"
    /\ call' = [call EXCEPT
           !.cMutex = 0, !.op = "none",
           !.inJobs = TRUE,
           !.Status = CASE call.op \in {"SubmitJob", "ResumeJob"} -> "pending"
                        [] call.op = "CancelJob" -> "canceled"
                        [] call.op = "PauseJob" -> "paused"
                        [] call.op = "Shutdown" ->
                              IF call.Status = "running" THEN "canceled" ELSE @,
           !.procs = IF call.op \in {"SubmitJob", "ResumeJob"}
                     THEN Append(@, NewLockProc) ELSE @]
    /\ UNCHANGED <<job, runs, coord, fetch, out>>

\* where Process goes when it takes bp.mutex, from each position outside it
ProcessLockTarget(proc, ctx) ==
    CASE proc.pc = "start" -> "startW"
      [] proc.pc = "total" -> "totalW"
      [] proc.pc = "loop" -> IF proc.left = 0 THEN "completeW"
                             ELSE IF ctx # "active" THEN "errorW"
                             ELSE "chunkW"
      [] proc.pc = "update" -> "updateW"
      [] OTHER -> "none"

\* Process takes bp.mutex: bp.mutex.Lock() at the start of Process, around
\* TotalTiles, around CurrentChunk, in updateJobProgress and in completeJob*
ProcessLock(p) ==
    /\ call.fn = "locks"
    /\ p \in DOMAIN call.procs
    /\ call.bpMutex = 0
    /\ ProcessLockTarget(call.procs[p], call.ctx) # "none"
    /\ call' = [call EXCEPT
           !.bpMutex = p,
           !.procs[p].pc = ProcessLockTarget(call.procs[p], call.ctx)]
    /\ UNCHANGED <<job, runs, coord, fetch, out>>

\* Process writes the job's fields and releases bp.mutex
ProcessUnlock(p) ==
    /\ call.fn = "locks"
    /\ p \in DOMAIN call.procs
    /\ call.procs[p].pc \in ProcessWritePcs
    /\ LET pc == call.procs[p].pc
       IN call' = [call EXCEPT
              !.bpMutex = 0,
              !.Status = CASE pc = "startW" -> "running"
                           [] pc = "completeW" -> "completed"
                           [] pc = "errorW" -> "failed"
                           [] OTHER -> @,
              !.procs[p] = CASE pc = "startW" -> [pc |-> "total", left |-> 0]
                             [] pc = "totalW" -> [pc |-> "loop", left |-> call.chunks]
                             [] pc = "chunkW" -> [pc |-> "workers", left |-> @.left - 1]
                             [] pc = "updateW" -> [pc |-> "loop", left |-> @.left]
                             [] pc = "completeW" -> [pc |-> "exit", left |-> 0]
                             [] pc = "errorW" -> [pc |-> "returned", left |-> 0]]
    /\ UNCHANGED <<job, runs, coord, fetch, out>>

\* ProcessChunk: the workers of the chunk run and the results are collected;
\* neither worker nor processWorkItem touches the job
ProcessChunkRuns(p) ==
    /\ call.fn = "locks"
    /\ p \in DOMAIN call.procs
    /\ call.procs[p].pc = "workers"
    /\ call' = [call EXCEPT !.procs[p].pc = "update"]
    /\ UNCHANGED <<job, runs, coord, fetch, out>>

\* Process returned an error to the goroutine of SubmitJob or ResumeJob,
\* which takes c.mutex to mark the job failed
GoroutineLock(p) ==
    /\ call.fn = "locks"
    /\ p \in DOMAIN call.procs
    /\ call.procs[p].pc = "returned"
    /\ call.cMutex = 0
    /\ call' = [call EXCEPT !.cMutex = p, !.procs[p].pc = "failedW"]
    /\ UNCHANGED <<job, runs, coord, fetch, out>>

\* the goroutine writes Status, Error and CompletedAt and releases c.mutex
GoroutineUnlock(p) ==
    /\ call.fn = "locks"
    /\ p \in DOMAIN call.procs
    /\ call.procs[p].pc = "failedW"
    /\ call' = [call EXCEPT !.cMutex = 0, !.Status = "failed",
                            !.procs[p].pc = "exit"]
    /\ UNCHANGED <<job, runs, coord, fetch, out>>

InitLocks ==
    /\ \E chunks \in 0 .. MaxLockChunks : call = NewLocks(chunks)
    /\ job = NewJob(<< >>, JobConfig(DefaultConcurrency, 1, 1, FALSE, FALSE))
    /\ runs = << >>
    /\ coord = NoCoord
    /\ fetch = NoFetch
    /\ out = NoOut

NextLocks ==
    \/ \E name \in {"SubmitJob", "CancelJob", "PauseJob", "ResumeJob", "Shutdown"} :
          LockOpBegin(name)
    \/ LockOpEnd
    \/ \E p \in 1 .. MaxLockProcs : ProcessLock(p)
    \/ \E p \in 1 .. MaxLockProcs : ProcessUnlock(p)
    \/ \E p \in 1 .. MaxLockProcs : ProcessChunkRuns(p)
    \/ \E p \in 1 .. MaxLockProcs : GoroutineLock(p)
    \/ \E p \in 1 .. MaxLockProcs : GoroutineUnlock(p)

SpecLocks == InitLocks /\ [][NextLocks]_vars

----------------------------------------------------------------------------
(* SpecJobsMap: the callers of the coordinator and its jobs map *)

\* the number of goroutines calling the coordinator
MaxCallers == 4

\* a coordinator whose store may hold the job from an earlier run
NewJobsMap(inStore) ==
    [fn      |-> "jobsmap",
     readers |-> 0,         \* holders of c.mutex.RLock()
     writer  |-> FALSE,     \* c.mutex.Lock() is held
     inJobs  |-> FALSE,     \* the id is a key of c.jobs
     inStore |-> inStore,   \* c.store.LoadJob(id) finds the job
     callers |-> [t \in 1 .. MaxCallers |-> [op |-> "none", pc |-> "idle"]]]

\* GetJob takes the read lock: c.mutex.RLock()
GetJobRLock(t) ==
    /\ call.fn = "jobsmap"
    /\ call.callers[t].pc = "idle"
    /\ ~call.writer
    /\ call' = [call EXCEPT !.readers = @ + 1,
                            !.callers[t] = [op |-> "GetJob", pc |-> "locked"]]
    /\ UNCHANGED <<job, runs, coord, fetch, out>>

\* GetJob looks the id up: found, it returns; missing and loaded from the
\* store, it goes on to `c.jobs[id] = storedJob`; otherwise it returns NotFound
GetJobLookup(t) ==
    /\ call.fn = "jobsmap"
    /\ call.callers[t] = [op |-> "GetJob", pc |-> "locked"]
    /\ IF ~call.inJobs /\ call.inStore
       THEN call' = [call EXCEPT !.callers[t].pc = "write"]
       ELSE call' = [call EXCEPT !.readers = @ - 1,
                                 !.callers[t] = [op |-> "none", pc |-> "idle"]]
    /\ UNCHANGED <<job, runs, coord, fetch, out>>

\* GetJob stores the loaded job in the map and returns: the deferred
\* c.mutex.RUnlock() runs
GetJobStore(t) ==
    /\ call.fn = "jobsmap"
    /\ call.callers[t] = [op |-> "GetJob", pc |-> "write"]
    /\ call' = [call EXCEPT !.inJobs = TRUE,
                            !.readers = @ - 1,
                            !.callers[t] = [op |-> "none", pc |-> "idle"]]
    /\ UNCHANGED <<job, runs, coord, fetch, out>>

\* SubmitJob or CleanupJob takes the write lock: c.mutex.Lock()
JobsMapLock(t, op) ==
    /\ call.fn = "jobsmap"
    /\ op \in {"SubmitJob", "CleanupJob"}
    /\ call.callers[t].pc = "idle"
    /\ ~call.writer /\ call.readers = 0
    /\ call' = [call EXCEPT !.writer = TRUE,
                            !.callers[t] = [op |-> op, pc |-> "locked"]]
    /\ UNCHANGED <<job, runs, coord, fetch, out>>

\* SubmitJob with the id already in the map, or CleanupJob with the id
\* missing, returns its error; otherwise the operation goes on to its write
JobsMapCheck(t) ==
    /\ call.fn = "jobsmap"
    /\ call.callers[t].pc = "locked"
    /\ call.callers[t].op \in {"SubmitJob", "CleanupJob"}
    /\ IF call.inJobs = (call.callers[t].op = "SubmitJob")
       THEN call' = [call EXCEPT !.writer = FALSE,
                                 !.callers[t] = [op |-> "none", pc |-> "idle"]]
       ELSE call' = [call EXCEPT !.callers[t].pc = "write"]
    /\ UNCHANGED <<job, runs, coord, fetch, out>>

\* SubmitJob stores the job (`c.jobs[job.ID] = job`, taken back when SaveJob
\* fails), CleanupJob deletes it from the map and from the store (storeOK:
\* the call on the store returns nil); then the deferred c.mutex.Unlock()
JobsMapWrite(t, storeOK) ==
    /\ call.fn = "jobsmap"
    /\ call.callers[t].pc = "write"
    /\ call.callers[t].op \in {"SubmitJob", "CleanupJob"}
    /\ call' = [call EXCEPT
           !.inJobs = (call.callers[t].op = "SubmitJob") /\ storeOK,
           !.inStore = IF storeOK THEN call.callers[t].op = "SubmitJob" ELSE @,
           !.writer = FALSE,
           !.callers[t] = [op |-> "none", pc |-> "idle"]]
    /\ UNCHANGED <<job, runs, coord, fetch, out>>

InitJobsMap ==
    /\ \E inStore \in BOOLEAN : call = NewJobsMap(inStore)
    /\ job = NewJob(<< >>, JobConfig(DefaultConcurrency, 1, 1, FALSE, FALSE))
    /\ runs = << >>
    /\ coord = NoCoord
    /\ fetch = NoFetch
    /\ out = NoOut

NextJobsMap ==
    \/ \E t \in 1 .. MaxCallers : GetJobRLock(t)
    \/ \E t \in 1 .. MaxCallers : GetJobLookup(t)
    \/ \E t \in 1 .. MaxCallers : GetJobStore(t)
    \/ \E t \in 1 .. MaxCallers, op \in {"SubmitJob", "CleanupJob"} : JobsMapLock(t, op)
    \/ \E t \in 1 .. MaxCallers : JobsMapCheck(t)
    \/ \E t \in 1 .. MaxCallers, storeOK \in BOOLEAN : JobsMapWrite(t, storeOK)

SpecJobsMap == InitJobsMap /\ [][NextJobsMap]_vars

----------------------------------------------------------------------------
(* SpecFetchBatch: the goroutines of one HTTPFetcher.FetchBatch call *)

\* the largest number of requests, and of workers asked for
MaxBatchRequests == 3
MaxBatchConcurrency == 2

\* a TileResponse: the request it answers and its Error ("nil", "failed" for
\* the error of FetchWithRetry, "ctx" for ctx.Err())
TileResponse(request, error) == [Request |-> request, Error |-> error]

\* a FetchBatch call on n requests that has not run yet
NewFetchBatch(n, concurrency) ==
    [fn           |-> "FetchBatch",
     pc           |-> "start",   \* "start", "collect", "returned"
     ctx          |-> "active",  \* the context of context.WithTimeout
     n            |-> n,         \* len(requests)
     concurrency  |-> concurrency,
     requestChan  |-> << >>,     \* requests in requestChan, oldest first
     responseChan |-> << >>,     \* responses in responseChan, oldest first
     workers      |-> << >>,     \* per worker goroutine: position and request held
     responses    |-> << >>]     \* the responses slice

\* FetchBatch up to its collection loop: the requests are sent to
\* requestChan, the channel is closed and the worker goroutines are started
FetchBatchStart ==
    /\ call.fn = "FetchBatch" /\ call.pc = "start"
    /\ call' = [call EXCEPT
           !.requestChan = [i \in 1 .. call.n |-> i],
           !.workers = [w \in 1 .. call.concurrency |-> [pc |-> "range", req |-> 0]],
           !.pc = "collect"]
    /\ UNCHANGED <<job, runs, coord, fetch, out>>

\* worker w at `for req := range requestChan`: it receives the oldest
\* request, or returns when the closed channel is empty
FetchBatchRange(w) ==
    /\ call.fn = "FetchBatch"
    /\ w \in DOMAIN call.workers
    /\ call.workers[w].pc = "range"
    /\ IF call.requestChan # << >>
       THEN call' = [call EXCEPT
                !.requestChan = Tail(@),
                !.workers[w] = [pc |-> "select", req |-> Head(call.requestChan)]]
       ELSE call' = [call EXCEPT !.workers[w] = [pc |-> "exit", req |-> 0]]
    /\ UNCHANGED <<job, runs, coord, fetch, out>>

\* worker w at its select: with the context done it sends a response holding
\* ctx.Err() and returns; otherwise it takes the default branch
FetchBatchSelect(w) ==
    /\ call.fn = "FetchBatch"
    /\ w \in DOMAIN call.workers
    /\ call.workers[w].pc = "select"
    /\ IF call.ctx = "done"
       THEN /\ Len(call.responseChan) < call.n
            /\ call' = [call EXCEPT
                   !.responseChan = Append(@, TileResponse(call.workers[w].req, "ctx")),
                   !.workers[w] = [pc |-> "exit", req |-> 0]]
       ELSE call' = [call EXCEPT !.workers[w].pc = "fetch"]
    /\ UNCHANGED <<job, runs, coord, fetch, out>>

\* worker w in the default branch: FetchWithRetry returns and its response is
\* sent; ok is whether it returned no error
FetchBatchFetch(w, ok) ==
    /\ call.fn = "FetchBatch"
    /\ w \in DOMAIN call.workers
    /\ call.workers[w].pc = "fetch"
    /\ Len(call.responseChan) < call.n
    /\ call' = [call EXCEPT
           !.responseChan = Append(@, TileResponse(call.workers[w].req,
                                                   IF ok THEN "nil" ELSE "failed")),
           !.workers[w] = [pc |-> "range", req |-> 0]]
    /\ UNCHANGED <<job, runs, coord, fetch, out>>

\* the steps of worker goroutine w
FetchBatchWorker(w) ==
    \/ FetchBatchRange(w)
    \/ FetchBatchSelect(w)
    \/ \E ok \in BOOLEAN : FetchBatchFetch(w, ok)

\* one iteration of the collection loop: `response := <-responseChan`
FetchBatchCollect ==
    /\ call.fn = "FetchBatch" /\ call.pc = "collect"
    /\ Len(call.responses) < call.n
    /\ call.responseChan # << >>
    /\ call' = [call EXCEPT
           !.responseChan = Tail(@),
           !.responses = Append(@, Head(call.responseChan))]
    /\ UNCHANGED <<job, runs, coord, fetch, out>>

\* the collection loop has run len(requests) times: FetchBatch returns
FetchBatchReturn ==
    /\ call.fn = "FetchBatch" /\ call.pc = "collect"
    /\ Len(call.responses) = call.n
    /\ call' = [call EXCEPT !.pc = "returned"]
    /\ UNCHANGED <<job, runs, coord, fetch, out>>

\* the steps of the goroutine that called FetchBatch
FetchBatchCaller ==
    \/ FetchBatchStart
    \/ FetchBatchCollect
    \/ FetchBatchReturn

\* the timeout of the call, config.Timeout times len(requests), expires
FetchBatchTimeout ==
    /\ call.fn = "FetchBatch" /\ call.pc # "returned"
    /\ call.ctx = "active"
    /\ call' = [call EXCEPT !.ctx = "done"]
    /\ UNCHANGED <<job, runs, coord, fetch, out>>

InitFetchBatch ==
    /\ \E n \in 1 .. MaxBatchRequests, concurrency \in 1 .. MaxBatchConcurrency :
          call = NewFetchBatch(n, concurrency)
    /\ job = NewJob(<< >>, JobConfig(DefaultConcurrency, 1, 1, FALSE, FALSE))
    /\ runs = << >>
    /\ coord = NoCoord
    /\ fetch = NoFetch
    /\ out = NoOut

NextFetchBatch ==
    \/ FetchBatchCaller
    \/ \E w \in 1 .. MaxBatchConcurrency : FetchBatchWorker(w)
    \/ FetchBatchTimeout

\* the scheduling of the Go runtime: a goroutine that can take a step is
\* eventually run; FetchWithRetry is taken to return. Nothing forces the
\* timeout to expire
SpecFetchBatch ==
    /\ InitFetchBatch /\ [][NextFetchBatch]_vars
    /\ WF_vars(FetchBatchCaller)
    /\ \A w \in 1 .. MaxBatchConcurrency : WF_vars(FetchBatchWorker(w))

----------------------------------------------------------------------------
(* SpecSubmit: SubmitJob on any job *)

\* the largest tile coordinate of the ranges handed to SubmitJob
SubmitMaxCoord == 2

\* the job IDs: none, one the coordinator may hold already, a new one
SubmitIDs == {"", "a", "b"}

\* the tile ranges of the jobs, inside and outside the grid and the zoom levels
SubmitRanges ==
    { [MinZ |-> minZ, MaxZ |-> maxZ, MinX |-> minX, MaxX |-> maxX,
       MinY |-> minY, MaxY |-> maxY] :
        minZ \in {-1, 0, 1}, maxZ \in {0, 1, MaxZoomLevel + 1},
        minX \in -1 .. (SubmitMaxCoord - 1), maxX \in 0 .. SubmitMaxCoord,
        minY \in 0 .. 1, maxY \in {0, SubmitMaxCoord} }

\* the configurations of the jobs; ConfigNil is job.Config == nil
SubmitConfigs ==
    { [ConfigNil |-> isNil, Config |-> JobConfig(conc, cs, timeout, FALSE, FALSE)] :
        isNil \in BOOLEAN, conc \in 0 .. 1, cs \in 0 .. 1, timeout \in 0 .. 1 }

\* SubmitJob(job) on a coordinator holding the jobs `jobs`; persistOK is
\* whether c.store.SaveJob returns nil (or no store is set). The result is
\* the error code returned, the jobs map and the jobs whose goroutine started
SubmitJobOutcome(jobs, j, persistOK) ==
    IF j.ID = ""
    THEN [ret |-> "VALIDATION_ERROR", jobs |-> jobs, started |-> {}]
    ELSE IF j.ID \in jobs
    THEN [ret |-> "VALIDATION_ERROR", jobs |-> jobs, started |-> {}]
    ELSE IF j.ConfigNil \/ ~validateJob(j)
    THEN [ret |-> "VALIDATION_ERROR", jobs |-> jobs, started |-> {}]
    ELSE IF ~persistOK
    THEN [ret |-> "PROCESSING_ERROR", jobs |-> (jobs \cup {j.ID}) \ {j.ID},
          started |-> {}]
    ELSE [ret |-> "nil", jobs |-> jobs \cup {j.ID}, started |-> {j.ID}]

\* the call returns
CallSubmitJob(persistOK) ==
    /\ call.fn = "SubmitJob" /\ call.pc = "call"
    /\ LET o == SubmitJobOutcome(call.jobs, call.job, persistOK)
       IN call' = [call EXCEPT !.pc = "returned", !.ret = o.ret,
                               !.jobs = o.jobs, !.started = o.started]
    /\ UNCHANGED <<job, runs, coord, fetch, out>>

InitSubmit ==
    /\ \E id \in SubmitIDs, cfg \in SubmitConfigs, held \in SUBSET {"a"} :
          \E ranges \in { << >> } \cup { << tr >> : tr \in SubmitRanges } :
             call = [fn |-> "SubmitJob", pc |-> "call",
                     job |-> [ID |-> id, ConfigNil |-> cfg.ConfigNil,
                              Config |-> cfg.Config, TileRanges |-> ranges],
                     before |-> held, jobs |-> held, started |-> {},
                     ret |-> "none"]
    /\ job = NewJob(<< >>, JobConfig(DefaultConcurrency, 1, 1, FALSE, FALSE))
    /\ runs = << >>
    /\ coord = NoCoord
    /\ fetch = NoFetch
    /\ out = NoOut

NextSubmit == \E persistOK \in BOOLEAN : CallSubmitJob(persistOK)

SpecSubmit == InitSubmit /\ [][NextSubmit]_vars

----------------------------------------------------------------------------
(* SpecConvert: the features of one tile converted twice *)

\* the largest number of layers of the tile, and of features of a layer
MaxConvertLayers == 3
MaxLayerFeatures == 2

\* the tiles: their layers in the order of the tile's bytes, each with its
\* name and its number of features; the names are distinct
ConvertTiles ==
    { t \in UNION { [1 .. n -> [name : { LayerNameOrder[i] : i \in 1 .. MaxConvertLayers },
                                count : 0 .. MaxLayerFeatures]] :
                    n \in 0 .. MaxConvertLayers } :
        \A i, j \in DOMAIN t : i # j => t[i].name # t[j].name }

\* Decoder.Decode: decodedTile.Layers, the map from the layer names to the
\* features of the layers, in their order in the layer
DecodedLayers(t) ==
    [name \in { t[i].name : i \in DOMAIN t } |->
        LET l == CHOOSE i \in DOMAIN t : t[i].name = name
        IN [k \in 1 .. t[l].count |-> [layer |-> name, index |-> k]]]

\* the loop of Convert over decodedTile.Layers, visiting the keys in the
\* order `order`: the features of each layer are appended in turn
RECURSIVE ConvertLayers(_, _, _, _)
ConvertLayers(layers, order, i, features) ==
    IF i > Len(order) THEN features
    ELSE ConvertLayers(layers, order, i + 1, features \o layers[order[i]])

\* Converter.Convert: the features of the FeatureCollections it may return,
\* one for each order the range over the map may take
ConvertFeatures(t) ==
    { ConvertLayers(DecodedLayers(t), order, 1, << >>) :
        order \in RangeOrders(DOMAIN DecodedLayers(t)) }

\* one more conversion of the same tile bytes
ConvertAgain ==
    /\ call.fn = "convert"
    /\ Len(call.results) < 2
    /\ \E features \in ConvertFeatures(call.tile) :
          call' = [call EXCEPT !.results = Append(@, features)]
    /\ UNCHANGED <<job, runs, coord, fetch, out>>

InitConvert ==
    /\ \E t \in ConvertTiles : call = [fn |-> "convert", tile |-> t, results |-> << >>]
    /\ job = NewJob(<< >>, JobConfig(DefaultConcurrency, 1, 1, FALSE, FALSE))
    /\ runs = << >>
    /\ coord = NoCoord
    /\ fetch = NoFetch
    /\ out = NoOut

NextConvert == ConvertAgain

SpecConvert == InitConvert /\ [][NextConvert]_vars

----------------------------------------------------------------------------
(* SpecFormat: the output format from validation to the formatter *)

\* the values of output.format in the configurations of the model
FormatInputs == {"geojson", "json", "custom", "xml", ""}

\* the output sections of the configurations
OutputConfigInputs ==
    [Format : FormatInputs, Stdout : BOOLEAN,
     Directory : {<<>>, << Lit("out") >>}, Pretty : BOOLEAN]

\* validateOutput on the output section: TRUE when it returns nil
validateOutputConfig(config) ==
    LET validFormats == << "geojson", "json", "custom" >>
    IN /\ contains(validFormats, config.Format)
       /\ ~(~config.Stdout /\ config.Directory = <<>>)

\* output.Format(cfg.Output.Format): Format is a string type, and the
\* conversion keeps the characters
ToFormat(s) == s

\* NewFormatter: the formatter and the error
NewFormatter(format) ==
    IF format = "geojson" THEN [formatter |-> "GeoJSONFormatter", err |-> Nil]
    ELSE IF format = "json" THEN [formatter |-> "JSONFormatter", err |-> Nil]
    ELSE [formatter |-> "nil", err |-> << "unsupported format" >>]

\* NewFileWriter and NewMultiFileWriter: the error, destOK being whether the
\* file or the directory can be created
NewFileWriterErr(writerConfig, destOK) ==
    IF NewFormatter(writerConfig.Format).err # Nil
    THEN Errorf("failed to create formatter", NewFormatter(writerConfig.Format).err)
    ELSE IF ~destOK THEN << "failed to create file destination" >>
    ELSE Nil

\* config.Load validates the output section
FormatValidate ==
    /\ call.fn = "format" /\ call.pc = "load"
    /\ call' = [call EXCEPT
           !.pc = IF validateOutputConfig(call.output) THEN "validated" ELSE "failed"]
    /\ UNCHANGED <<job, runs, coord, fetch, out>>

\* runBatch creates its writer from the validated configuration
FormatCreateWriter(destOK) ==
    /\ call.fn = "format" /\ call.pc = "validated"
    /\ LET writerConfig == [Format |-> ToFormat(call.output.Format),
                            Pretty |-> call.output.Pretty]
           err == NewFileWriterErr(writerConfig, destOK)
       IN call' = [call EXCEPT
              !.pc = IF err = Nil THEN "writer" ELSE "failed",
              !.err = IF err = Nil THEN Nil ELSE Errorf("failed to create writer", err)]
    /\ UNCHANGED <<job, runs, coord, fetch, out>>

InitFormat ==
    /\ \E output \in OutputConfigInputs, singleFile \in BOOLEAN :
          call = [fn |-> "format", pc |-> "load", output |-> output,
                  singleFile |-> singleFile, err |-> Nil]
    /\ job = NewJob(<< >>, JobConfig(DefaultConcurrency, 1, 1, FALSE, FALSE))
    /\ runs = << >>
    /\ coord = NoCoord
    /\ fetch = NoFetch
    /\ out = NoOut

NextFormat ==
    \/ FormatValidate
    \/ \E destOK \in BOOLEAN : FormatCreateWriter(destOK)

SpecFormat == InitFormat /\ [][NextFormat]_vars

----------------------------------------------------------------------------
(* SpecTransform: tile coordinates to Web Mercator in the decoder *)

\* the largest zoom level of the decoded tiles
MaxTransformZoom == 2

\* the extent of NewDecoder
DefaultExtent == 4096

\* the extents of NewDecoder and NewDecoderWithExtent
DecoderExtents == {DefaultExtent, 512}

\* the extents the layers of a tile declare
LayerExtents == {256, 512, 4096}

Abs(i) == IF i < 0 THEN -i ELSE i

RECURSIVE GCD(_, _)
GCD(a, b) == IF b = 0 THEN a ELSE GCD(b, a % b)

\* the fraction num/den in lowest terms, den positive
Ratio(num, den) ==
    LET g == GCD(Abs(num), den)
    IN << num \div g, den \div g >>

\* the transform closure of transformGeometry, in exact arithmetic: the two
\* coordinates as fractions of webMercatorMax
transformPoint(extent, point, z, x, y) ==
    LET n == 2 ^ z
        tileSize == extent
        \* globalX = (x + point[1] / tileSize) / n, as a fraction
        globalXNum == x * tileSize + point[1]
        globalYNum == y * tileSize + point[2]
        den == tileSize * n
    IN << Ratio(2 * globalXNum - den, den), Ratio(den - 2 * globalYNum, den) >>

\* transformGeometry of a point feature: the scale is the decoder's extent
transformGeometry(d, geometry, z, x, y) ==
    transformPoint(d.extent, geometry, z, x, y)

\* decodeLayer of a layer with one point feature
decodeLayer(d, layer, z, x, y) ==
    [Extent |-> layer.Extent,
     Features |-> [i \in 1 .. Len(layer.Features) |->
                      transformGeometry(d, layer.Features[i], z, x, y)]]

\* Decode decodes the layer of the tile
TransformDecode ==
    /\ call.fn = "transform" /\ call.pc = "decode"
    /\ call' = [call EXCEPT
           !.pc = "decoded",
           !.decoded = << decodeLayer(call.d, call.layer, call.z, call.x, call.y) >>]
    /\ UNCHANGED <<job, runs, coord, fetch, out>>

InitTransform ==
    /\ \E extent \in DecoderExtents, E \in LayerExtents, z \in 0 .. MaxTransformZoom :
         \E x \in 0 .. 2 ^ z - 1, y \in 0 .. 2 ^ z - 1,
            px \in {0, E \div 2, E}, py \in {0, E \div 2, E} :
            call = [fn |-> "transform", pc |-> "decode",
                    d |-> [extent |-> extent],
                    layer |-> [Extent |-> E, Features |-> << << px, py >> >>],
                    z |-> z, x |-> x, y |-> y, decoded |-> << >>]
    /\ job = NewJob(<< >>, JobConfig(DefaultConcurrency, 1, 1, FALSE, FALSE))
    /\ runs = << >>
    /\ coord = NoCoord
    /\ fetch = NoFetch
    /\ out = NoOut

NextTransform == TransformDecode

SpecTransform == InitTransform /\ [][NextTransform]_vars

----------------------------------------------------------------------------
(* Properties of one Process run (Spec) *)

\* the tiles of a run whose fetch or conversion failed on every attempt
TileFailures(run) == run.chunkResults.tileErr + run.res.tileErr

\* C1: with fail_on_error, once a tile of a chunk has failed, Process returns an
\* error, the job ends Failed, and no later chunk is dispatched.
C1_FailOnErrorAborts ==
    \A r \in DOMAIN runs :
        job.Config.FailOnError =>
            /\ (runs[r].pc = "done" /\ TileFailures(runs[r]) > 0)
                   => (runs[r].ret = "err" /\ job.Status = "failed")
            /\ runs[r].chunkResults.tileErr > 0
                   => runs[r].dispatched = runs[r].chunkResults.chunks

\* C3: a job that Process left Completed has every enumerated tile processed and
\* counted once: SuccessTiles + FailedTiles = ProcessedTiles = TotalTiles.
C3_CompletedCountsAll ==
    job.Status = "completed" =>
        /\ job.Progress.SuccessTiles + job.Progress.FailedTiles
               = job.Progress.ProcessedTiles
        /\ job.Progress.ProcessedTiles = job.Progress.TotalTiles

\* C4: when the deadline expired before Process finished (here: a worker of a
\* chunk saw the expired deadline), the job ends Failed and Process returns an
\* error; it is never marked Completed.
C4_DeadlineFails ==
    \A r \in DOMAIN runs :
        (runs[r].pc = "done" /\ runs[r].ctx = "deadline"
            /\ runs[r].chunkResults.ctxErr > 0)
        => (job.Status = "failed" /\ runs[r].ret = "err")

\* C5: when Process finds, at the top of a chunk, the context cancelled (not
\* timed out), it marks the job Canceled and returns without dispatching.
C5_CancelMarksCanceled ==
    \A r \in DOMAIN runs :
        (runs[r].pc = "done" /\ job.Error = "context canceled")
        => (job.Status = "canceled" /\ runs[r].ret = "err")

C7_ProcessedIsSum ==
    job.Progress.ProcessedTiles
        = job.Progress.SuccessTiles + job.Progress.FailedTiles

\* a chunk's update has counted successes, tile failures and a result carrying
\* the context's error
C7_Witness ==
    \E r \in DOMAIN runs :
        /\ runs[r].chunkResults.chunks >= 1
        /\ job.Progress.SuccessTiles >= 1
        /\ job.Progress.FailedTiles >= 2
        /\ runs[r].chunkResults.ctxErr >= 1

\* C11: while a chunk is processed, the work items in flight never exceed
\* min(chunk_size, configured concurrency) of the job, and that many workers
\* are started when the chunk has at least that many items.
C11_PoolSize ==
    \A r \in DOMAIN runs :
        runs[r].pc = "workers" =>
            LET pool == Min(job.Config.ChunkSize, job.Config.Concurrency)
            IN /\ runs[r].busy <= pool
               /\ runs[r].chunkLen >= pool => runs[r].workers = pool

\* C26: ProcessedTiles, SuccessTiles and FailedTiles of a job never decrease
\* over the chunk completions of a Process run.
C26_CountersMonotonic ==
    [][ /\ job'.Progress.ProcessedTiles >= job.Progress.ProcessedTiles
        /\ job'.Progress.SuccessTiles >= job.Progress.SuccessTiles
        /\ job'.Progress.FailedTiles >= job.Progress.FailedTiles ]_vars

\* two chunks of a run have completed, with tiles converted and tiles failed
C26_Witness ==
    /\ runs # << >> /\ runs[1].chunkResults.chunks >= 2
    /\ job.Progress.SuccessTiles >= 1
    /\ job.Progress.FailedTiles >= 1
    /\ job.Progress.ProcessedTiles >= 3

----------------------------------------------------------------------------
(* Properties of the coordinator with its Process runs (SpecCoord) *)

\* C2: every change of the job's status follows the transition graph; in
\* particular (the clause stated here) a job that has reached Completed or
\* Canceled never changes status again.
C2_TerminalStatusStays ==
    [][job.Status \in {"completed", "canceled"} => job'.Status = job.Status]_vars

\* C8: 0 <= ProcessedTiles <= TotalTiles in every state of a job, so
\* CalculateProgress lies between 0 and 100, also for a job that is resumed.
C8_ProgressWithinTotal ==
    /\ 0 <= job.Progress.ProcessedTiles
    /\ job.Progress.ProcessedTiles <= job.Progress.TotalTiles
    /\ LET pct == CalculateProgress(job.Progress)
       IN 0 <= pct.num /\ pct.num <= 100 * pct.den

----------------------------------------------------------------------------
(* Properties of the retry loops (SpecFetch) *)

\* the classifications should_retry refuses: an HTTP client error (4xx), and a
\* response whose error is NotFound, PermissionDenied or Validation
NonRetryable(resp) ==
    \/ (resp.StatusCode >= 400 /\ resp.StatusCode < 500)
    \/ resp.ErrorCode \in {"NOT_FOUND", "PERMISSION_ERROR", "VALIDATION_ERROR"}

\* C9: once a fetch of a tile came back with a non-retryable classification, no
\* further fetch attempt is made for it, by FetchWithRetry of either fetcher and
\* by the batch executor: exactly one attempt when the first one is classified so.
C9_NonRetryableOnce ==
    [][(fetch.calls >= 1 /\ fetch.err.isErr /\ NonRetryable(fetch.resp))
          => fetch'.calls = fetch.calls]_vars

\* C10: FetchWithRetry of both fetchers makes at most max_retries + 1 attempts,
\* max_retries being the configured value, exactly that many when every attempt
\* fails with a retryable error, and none after the first success.
C10_AttemptsBound ==
    fetch.caller = "FetchWithRetry" =>
        /\ fetch.calls <= fetch.maxRetries + 1
        /\ (fetch.pc = "done" /\ fetch.err.isErr
               /\ shouldRetry(fetch.fetcher, fetch.resp, fetch.err))
           => fetch.calls = fetch.maxRetries + 1
        /\ fetch.ok => fetch.pc = "done"

\* C19: HTTPFetcher.Fetch treats every 2xx status as success (the body is
\* returned with no error), every 4xx status as a client error that is not
\* retried, and 5xx statuses and transport errors as failures that are retried.
C19_StatusClasses ==
    (fetch.pc # "off" /\ fetch.fetcher = "http" /\ fetch.calls >= 1) =>
        LET status == fetch.ev.status
            retry  == HTTPShouldRetry(fetch.resp, fetch.err)
        IN /\ (fetch.ev.kind = "body" /\ status >= 200 /\ status < 300)
                 => ~fetch.err.isErr
           /\ (fetch.ev.kind = "body" /\ status >= 400 /\ status < 500)
                 => (fetch.err.isErr /\ ~retry)
           /\ ((fetch.ev.kind = "body" /\ status >= 500)
                  \/ fetch.ev.kind = "transport")
                 => (fetch.err.isErr /\ retry)

\* C28 as it is stated: for each work item the executor makes at most 3
\* attempts, each attempt being one call into the fetcher followed, when the
\* fetch succeeds, by one conversion; it stops at the first attempt that succeeds.
C28_ThreeAttempts ==
    (fetch.pc # "off" /\ fetch.caller = "processWorkItem") =>
        /\ fetch.calls <= 3
        /\ fetch.convs <= fetch.calls
        /\ fetch.ok => fetch.pc = "done"

\* C28, amended: for each work item the executor makes at most 4 attempts (the
\* first one and 3 retries), exactly 4 when none succeeds, each attempt being
\* one call into the fetcher followed, when the fetch succeeds, by one
\* conversion; it stops at the first attempt that succeeds.
C28_FourAttempts ==
    (fetch.pc # "off" /\ fetch.caller = "processWorkItem") =>
        /\ fetch.calls <= BatchMaxRetries + 1
        /\ fetch.calls = fetch.attempt + (IF fetch.ok THEN 1 ELSE 0)
        /\ fetch.convs <= fetch.calls
        /\ fetch.ok => (fetch.pc = "done" /\ fetch.convs >= 1 /\ ~fetch.err.isErr)
        /\ (fetch.pc = "done" /\ ~fetch.ok) => fetch.calls = BatchMaxRetries + 1

\* the executor has given up on a work item after its fourth attempt, the
\* fetch having succeeded and the conversion failed every time
C28_Witness ==
    /\ fetch.pc = "done" /\ fetch.caller = "processWorkItem"
    /\ ~fetch.ok
    /\ fetch.calls = 4 /\ fetch.convs = 4

----------------------------------------------------------------------------
(* Properties of the locators of a batch job (SpecLocate) *)

\* C12: the locator a batch work item is fetched from is derived from the
\* configured source for the item's (z, x, y): the tile URL under base_url for
\* the HTTP source, the file base_path/z/x/y+ext for the local source.
C12_LocatorFromConfig ==
    (call.fn = "locate" /\ call.pc = "done") =>
        /\ ~call.failed
        /\ call.source = "http" =>
              call.located = GetTileURL(call.cfg, call.tile.z, call.tile.x, call.tile.y)
        /\ call.source = "local" =>
              call.located = GetTilePath(call.cfg, call.tile.z, call.tile.x, call.tile.y)

----------------------------------------------------------------------------
(* Properties of the single-file writer (SpecWrite) *)

\* the features the error-free tiles of a sequence hold, each with its tile
RECURSIVE FeaturesOf(_)
FeaturesOf(tiles) ==
    IF tiles = <<>> THEN {}
    ELSE LET t == Head(tiles)
         IN (IF t.Error THEN {}
             ELSE { [id |-> t.Data.features.elems[i].id,
                     tile |-> <<t.Coordinate.Z, t.Coordinate.X, t.Coordinate.Y>>] :
                    i \in 1 .. Len(t.Data.features.elems) })
            \cup FeaturesOf(Tail(tiles))

\* the ids of the features of a document
FeatureIds(doc) == { doc.features[i].id : i \in 1 .. Len(doc.features) }

\* C13: the file of a single-file batch job of more than one chunk holds, after
\* Close, exactly one FeatureCollection document, with the features of all
\* successfully processed tiles of all chunks.
C13_OneDocument ==
    (out.pc = "closed" /\ ~out.direct /\ out.chunks >= 2 /\ Len(out.given) >= 1) =>
        /\ Len(out.docs) = 1
        /\ out.docs[1].type = "FeatureCollection"
        /\ FeatureIds(out.docs[1]) = { f.id : f \in FeaturesOf(out.given) }

\* C14: WriteBatch in GeoJSON format with metadata, given tiles the converter
\* produced, emits one FeatureCollection whose features are exactly the
\* features of the error-free tiles, each with properties._tile = "z/x/y" of
\* its tile.
C14_BatchFeaturesTagged ==
    (out.direct /\ out.includeStats
        /\ \A i \in 1 .. Len(out.given) :
              out.given[i] \in ConverterTiles \cup {ErrorTile(1, 0, 1)}) =>
        /\ Len(out.docs) = 1
        /\ out.docs[1].type = "FeatureCollection"
        /\ { [id |-> out.docs[1].features[i].id,
              tile |-> out.docs[1].features[i].properties.tile] :
             i \in 1 .. Len(out.docs[1].features) } = FeaturesOf(out.given)
        /\ Len(out.docs[1].features) = Cardinality(FeaturesOf(out.given))

----------------------------------------------------------------------------
(* Properties of the choice of the source (SpecCLI, SpecDetect) *)

\* C15: when convert or batch is given --source-type T and tiles are addressed
\* by coordinates or ranges, the source type that is validated and for which
\* the fetcher is created is T, whichever of base_url and base_path are set.
C15_OverrideIsUsed ==
    (call.fn \in {"convert", "batch"} /\ call.override # "" /\ call.input = "coords"
        /\ call.sourceType # "none")
    => call.sourceType = call.override

\* C16: convert with only --file and an absolute path (no base_url, no
\* base_path, no output directory, output to stdout) passes configuration and
\* source validation and reads the file through the local fetcher.
C16_FileOnlyConverts ==
    (call.fn = "convert" /\ call.input = "file" /\ call.override = ""
        /\ call.loaded.BaseURL = <<>> /\ call.loaded.BasePath = <<>>
        /\ call.loaded.Directory = <<>> /\ call.loaded.Stdout
        /\ call.loaded.Type = "auto" /\ call.loaded.AutoDetect)
    => /\ call.pc # "failed"
       /\ call.pc = "fetch" => call.fetcher = "LocalFetcher"

\* C17: DetermineSourceType with auto-detection on returns local when only
\* base_path is set, http when only base_url is set, and default_type when both
\* or neither are set; with auto-detection off it returns the configured type.
C17_DetermineSourceType ==
    (call.fn = "DetermineSourceType" /\ call.pc = "returned") =>
        LET cfg == call.cfg
        IN call.result =
              IF cfg.AutoDetect
              THEN IF cfg.BasePath # <<>> /\ cfg.BaseURL = <<>> THEN "local"
                   ELSE IF cfg.BaseURL # <<>> /\ cfg.BasePath = <<>> THEN "http"
                   ELSE cfg.DefaultType
              ELSE cfg.Type

----------------------------------------------------------------------------
(* Properties of the enumeration of tile ranges (SpecEnum) *)

\* (z, x, y) of a precedes (z, x, y) of b: z-major, then x, then y
TileBefore(a, b) ==
    \/ a.z < b.z
    \/ a.z = b.z /\ a.x < b.x
    \/ a.z = b.z /\ a.x = b.x /\ a.y < b.y

----------------------------------------------------------------------------
(* Properties of the layer names (SpecLayers) *)

\* the place of a layer name in the ascending order of the names
Rank(name) == CHOOSE i \in 1 .. Len(LayerNameOrder) : LayerNameOrder[i] = name

\* names is in ascending order
Ascending(names) ==
    \A i, j \in 1 .. Len(names) : i < j => Rank(names[i]) < Rank(names[j])

\* C20: GetLayerNames, and with it the layers of ConversionMetadata and of
\* TileMetadata, lists the layer names in ascending sorted order, for every set
\* of layers.
C20_LayerNamesSorted ==
    call.fn = "layers" =>
        /\ call.pc = "names" => Ascending(call.names)
        /\ call.pc \in {"converted", "processed"} => Ascending(call.conversion)
        /\ call.pc = "processed" => Ascending(call.tile)

----------------------------------------------------------------------------
(* Properties of the payload of a tile (SpecPayload) *)

\* C21: decoding an empty payload fails with the error "empty tile data"; a
\* tile whose fetched payload is empty becomes a failed tile (its error set, no
\* data) and is never passed to the writer.
C21_EmptyPayloadFails ==
    call.fn = "payload" =>
        /\ (call.cmd = "decode" /\ call.pc = "done" /\ Len(call.data) = 0)
              => call.err = << "empty tile data" >>
        /\ (call.cmd # "decode" /\ call.processed /\ Len(call.data) = 0)
              => /\ call.tile.Error # Nil /\ ~call.tile.Data
                 /\ call.err # Nil
                 /\ call.result.Error # Nil
                 /\ call.written = << >>
        /\ \A i \in 1 .. Len(call.written) :
              /\ call.written[i].Size > 0
              /\ call.written[i].Error = Nil

\* a work item of a batch whose last fetch returned an empty payload has been
\* collected by ProcessChunk
C21_Witness ==
    /\ call.fn = "payload" /\ call.cmd = "batch" /\ call.pc = "done"
    /\ call.processed /\ Len(call.data) = 0
    /\ call.attempt = BatchMaxRetries + 1

----------------------------------------------------------------------------
(* Properties of the validation of coordinates (SpecValidate) *)

\* (z, x, y) names a tile of the pyramid: 0 <= z <= 22 and 0 <= x, y < 2^z
InPyramid(z, x, y) ==
    /\ z \in 0 .. 22
    /\ x >= 0 /\ y >= 0
    /\ \E n \in {2 ^ z} : x < n /\ y < n

\* C22: tile.ValidateCoordinates and TileID.Validate succeed exactly when
\* 0 <= z <= 22, 0 <= x < 2^z and 0 <= y < 2^z, and the two agree on every input.
C22_ValidateExactly ==
    call.fn = "validate" =>
        /\ call.tile # "none" =>
              (call.tile = "nil" <=> InPyramid(call.z, call.x, call.y))
        /\ call.mvt # "none" =>
              (call.mvt = "nil" <=> InPyramid(call.z, call.x, call.y))
        /\ (call.tile # "none" /\ call.mvt # "none") => call.tile = call.mvt

\* both validations have accepted the last tile of the deepest zoom level
C22_Witness ==
    /\ call.fn = "validate"
    /\ call.z = 22 /\ call.x = (2 ^ 22) - 1 /\ call.y = (2 ^ 22) - 1
    /\ call.tile = "nil" /\ call.mvt = "nil"

----------------------------------------------------------------------------
(* Properties of the conversion of a feature (SpecFeature) *)

\* the tag named key passes the property filter
PassesFilter(propertyFilter, key) ==
    \/ propertyFilter = << >>
    \/ key \in { propertyFilter[i] : i \in 1 .. Len(propertyFilter) }

\* C23: convertFeatureToGeoJSON copies exactly those tags of the feature that
\* pass the property filter (all of them when the filter is empty), always sets
\* properties._layer to the layer name (in the place of a tag of that name),
\* and keeps the ID of the feature.
C23_TagsFiltered ==
    (call.fn = "convertFeatureToGeoJSON" /\ call.pc = "returned") =>
        LET tags  == call.feature.Tags
            props == call.result.Properties
        IN /\ \A key \in TagKeys \ {"_layer"} :
                 /\ key \in DOMAIN props
                       <=> (key \in DOMAIN tags
                               /\ PassesFilter(call.propertyFilter, key))
                 /\ key \in DOMAIN props => props[key] = tags[key]
           /\ DOMAIN props \subseteq (DOMAIN tags \cup {"_layer"})
           /\ "_layer" \in DOMAIN props
           /\ props["_layer"] = call.layerName
           /\ call.result.ID = call.feature.ID

\* a feature with an ID has been converted under a filter of two names that
\* kept its tag "type" and left out its tag "name"
C23_Witness ==
    /\ call.fn = "convertFeatureToGeoJSON" /\ call.pc = "returned"
    /\ call.feature.ID = "test-feature"
    /\ {"name", "type"} \subseteq DOMAIN call.feature.Tags
    /\ call.propertyFilter = << "population", "type" >>
    /\ DOMAIN call.result.Properties = {"type", "_layer"}

----------------------------------------------------------------------------
(* Properties of applyGeometryTransform (SpecGeom) *)

\* a and b, values of geometries of the variant type, have the same number of
\* parts, rings and vertices at every nesting level
SameShape(type, a, b) ==
    CASE type = "Point" -> TRUE
      [] type \in {"MultiPoint", "LineString"} -> Len(a) = Len(b)
      [] type \in {"MultiLineString", "Polygon"} ->
            /\ Len(a) = Len(b)
            /\ \A i \in 1 .. Len(a) : Len(a[i]) = Len(b[i])
      [] OTHER ->
            /\ Len(a) = Len(b)
            /\ \A i \in 1 .. Len(a) :
                  /\ Len(a[i]) = Len(b[i])
                  /\ \A j \in 1 .. Len(a[i]) : Len(a[i][j]) = Len(b[i][j])

\* C24: applyGeometryTransform with the identity point function returns a
\* geometry equal to its input, of the same variant and with the same number
\* of parts, rings and vertices at every nesting level, for Point, MultiPoint,
\* LineString, MultiLineString, Polygon and MultiPolygon, the empty ones too.
C24_IdentityTransform ==
    ( /\ call.fn = "applyGeometryTransform" /\ call.pc = "returned"
      /\ call.transform = "identity" )
    =>
        /\ call.result.type = call.geom.type
        /\ SameShape(call.geom.type, call.geom.g, call.result.g)
        /\ call.result.g = call.geom.g
        /\ call.result = call.geom

\* the identity has been applied to a MultiPolygon of two polygons, the
\* second one with two rings
C24_Witness ==
    /\ call.fn = "applyGeometryTransform" /\ call.pc = "returned"
    /\ call.transform = "identity"
    /\ call.geom.type = "MultiPolygon"
    /\ Len(call.geom.g) = 2
    /\ Len(call.geom.g[2]) = 2
    /\ Len(call.geom.g[2][1]) = 3
    /\ call.result.type = "MultiPolygon"

----------------------------------------------------------------------------
(* Properties of the conversion options (SpecOptions) *)

\* C25: ValidateConversionOptions accepts exactly the coordinate systems
\* "web-mercator" and "wgs84"; for any other value NewConverterWithOptions
\* returns an error and no converter; NewConverter defaults to web-mercator.
C25_CoordinateSystems ==
    call.fn = "options" =>
        LET accepted == call.options.CoordinateSystem \in {"web-mercator", "wgs84"}
        IN /\ call.validated.called => (call.validated.err = Nil <=> accepted)
           /\ (call.custom.called /\ ~accepted)
                 => (call.custom.err # Nil /\ call.custom.converter.isNil)
           /\ (call.custom.called /\ accepted)
                 => /\ call.custom.err = Nil
                    /\ ~call.custom.converter.isNil
                    /\ call.custom.converter.options = call.options
           /\ call.default.called
                 => /\ ~call.default.converter.isNil
                    /\ call.default.converter.options.CoordinateSystem = "web-mercator"

\* the three functions have been called, the options naming no coordinate system
C25_Witness ==
    /\ call.fn = "options"
    /\ call.options.CoordinateSystem = ""
    /\ call.validated.called /\ call.custom.called /\ call.default.called
    /\ call.custom.converter.isNil

----------------------------------------------------------------------------
(* Properties of a worker (SpecWorker) *)

\* C27: once the context of the job is cancelled, no new fetch attempt is
\* started for any work item, the cancellation being looked at at the top of
\* each worker iteration and before each attempt of the retry loop of an item.
C27_NoFetchAfterCancel ==
    [][ (call.fn = "worker" /\ call.ctx # "active")
           => ~(call'.fetches > call.fetches) ]_vars

----------------------------------------------------------------------------
(* Properties of the goroutines of ProcessChunk (SpecChunk, SpecChunkLive) *)

\* the work items the results of the ChunkResult are for
ResultItems == { call.results[i].Item : i \in DOMAIN call.results }

\* the ChunkResult holds exactly one WorkResult per work item
OneResultPerItem ==
    /\ Len(call.results) = call.n
    /\ ResultItems = 1 .. call.n

\* C29: ProcessChunk returns, whatever the interleaving of its workers, and
\* when the context is not cancelled its result contains exactly one
\* WorkResult for every work item of the chunk (none lost, none duplicated),
\* with SuccessCount + FailureCount equal to the chunk's length.
C29_ChunkReturnsAllResults ==
    /\ <>(call.pc = "returned")
    /\ []((call.pc = "returned" /\ call.ctx = "active") =>
             /\ OneResultPerItem
             /\ call.successCount + call.failureCount = call.n)

\* a chunk of two items has returned with a live context, its results in
\* another order than the items, one of them a failure
C29_Witness ==
    /\ call.fn = "ProcessChunk" /\ call.pc = "returned"
    /\ call.ctx = "active"
    /\ call.n = 2
    /\ call.failureCount = 1
    /\ call.results[1].Item = 2

----------------------------------------------------------------------------
(* Properties of the goroutines on a shared processor (SpecShared) *)

\* the goroutines that are inside bp.writer.WriteBatch
InWriteBatch == { p \in DOMAIN call.procs : call.procs[p].pc = "write" }

\* C30: at most one Write or WriteBatch call on a writer is in progress at any
\* time, and WriteBatch for a chunk is called only after all workers of that
\* chunk have finished; this also holds when the coordinator runs several
\* submitted jobs through its shared processor.
C30_OneWriteAtATime ==
    /\ Cardinality(InWriteBatch) <= 1
    /\ \A p \in InWriteBatch :
          call.procs[p].idle = 0 /\ call.procs[p].busy = 0

----------------------------------------------------------------------------
(* Properties of the locks around a Job (SpecLocks) *)

\* the goroutines of Process that are writing the job
ProcessWriters == { p \in DOMAIN call.procs : call.procs[p].pc \in ProcessWritePcs }

\* the holders of c.mutex that are writing the job
CoordinatorWriters ==
    (IF call.op # "none" THEN {0} ELSE {}) \cup
    { p \in DOMAIN call.procs : call.procs[p].pc = "failedW" }

\* C31: every write to a Job's fields is made while holding one and the same
\* lock, so the coordinator's operations and the processor's Process never
\* write the same job at the same time; workers never write the Job.
C31_OneLockForTheJob ==
    /\ Cardinality(ProcessWriters) + Cardinality(CoordinatorWriters) <= 1
    /\ \A p \in DOMAIN call.procs : call.procs[p].pc = "workers" => call.bpMutex # p

----------------------------------------------------------------------------
(* Properties of the jobs map of the coordinator (SpecJobsMap) *)

\* the callers that are writing c.jobs
MapWriters == { t \in 1 .. MaxCallers : call.callers[t].pc = "write" }

\* C32: the coordinator's jobs map is written only while the exclusive
\* (write) lock is held; in particular concurrent GetJob calls for an id that
\* is missing from memory but present in the store never write the map at the
\* same time.
C32_MapWrittenUnderLock ==
    /\ MapWriters # {} => call.writer
    /\ Cardinality(MapWriters) <= 1

----------------------------------------------------------------------------
(* The Process run of a cancelled or paused job (SpecCoord) *)

\* C33: after CancelJob(id) or PauseJob(id) succeeds, the Process run of that
\* job dispatches no further chunk, writes no further tile and does not
\* advance the job's progress counters (for a paused job: until ResumeJob is
\* called).
C33_StoppedJobStandsStill ==
    [][ (coord.jobs /\ coord.ctx = "active" /\ job.Status \in {"canceled", "paused"}) =>
          /\ \A r \in DOMAIN runs :
                /\ runs'[r].dispatched = runs[r].dispatched
                /\ ~(runs[r].pc = "workers" /\ runs'[r].pc = "update"
                     /\ runs[r].res.ok > 0)
          /\ job'.Progress.ProcessedTiles = job.Progress.ProcessedTiles
          /\ job'.Progress.SuccessTiles = job.Progress.SuccessTiles
          /\ job'.Progress.FailedTiles = job.Progress.FailedTiles ]_vars

----------------------------------------------------------------------------
(* The tiles counted as successes and the writes of their chunks (Spec) *)

\* C34: every tile counted in a job's SuccessTiles was passed to a WriteBatch
\* call that returned without error; a tile whose chunk's WriteBatch failed
\* is never counted as a success.
C34_SuccessMeansWritten ==
    [][ \A r \in DOMAIN runs :
           (runs[r].pc = "update"
            /\ job'.Progress.SuccessTiles > job.Progress.SuccessTiles)
              => ~runs[r].chunkErr ]_vars

----------------------------------------------------------------------------
(* Properties of the goroutines of FetchBatch (SpecFetchBatch) *)

\* the requests the collected responses answer
AnsweredRequests == { call.responses[i].Request : i \in DOMAIN call.responses }

\* C35: HTTPFetcher.FetchBatch(requests, concurrency) always returns, with
\* exactly one response per request, including when its overall timeout
\* expires before every request has been picked up by a worker.
C35_FetchBatchReturns ==
    /\ <>(call.pc = "returned")
    /\ [](call.pc = "returned" =>
             /\ Len(call.responses) = call.n
             /\ AnsweredRequests = 1 .. call.n)

----------------------------------------------------------------------------
(* The chunks of one Process run (Spec) *)

\* the least number of chunks of at most cs items that hold n items
CeilDiv(n, cs) == CHOOSE k \in 0 .. n : k * cs >= n /\ (k = 0 \/ (k - 1) * cs < n)

\* C36: within one Process run, chunks are processed strictly one after
\* another in enumeration order: the WriteBatch of chunk k completes before
\* any work item of chunk k+1 is fetched, each chunk holds at most chunk_size
\* consecutive items of the enumeration, TotalChunks = ceil(N / chunk_size),
\* and the chunks together cover every enumerated item exactly once.
C36_ChunksInOrder ==
    LET run == runs[1]
        cs == job.Config.ChunkSize
        k == run.chunkResults.chunks
    IN /\ run.busy > 0 => run.pc = "workers"
       /\ run.pc \in {"loop", "complete"} => run.dispatched = k
       /\ run.pc \in {"workers", "update"} =>
             /\ run.dispatched = k + 1
             /\ run.chunkStart = k * cs
             /\ run.chunkLen >= 1 /\ run.chunkLen <= cs
             /\ run.chunkLen = Min(cs, run.n - run.chunkStart)
       /\ run.pc \in {"loop", "workers", "update", "complete"} =>
             job.Progress.TotalChunks = CeilDiv(run.n, cs)
       /\ run.pc = "loop" => run.chunkStart = k * cs
       /\ run.pc = "complete" =>
             /\ k = CeilDiv(run.n, cs)
             /\ k * cs >= run.n /\ run.chunkStart = k * cs

\* a run over 5 items in chunks of 2 has finished its third chunk, of 1 item
C36_Witness ==
    /\ runs[1].pc = "complete"
    /\ runs[1].n = 5
    /\ job.Config.ChunkSize = 2
    /\ runs[1].chunkResults.chunks = 3
    /\ job.Progress.TotalChunks = 3

----------------------------------------------------------------------------
(* Properties of SubmitJob (SpecSubmit) *)

\* a tile range with min > max, or with coordinates outside the 2^z grid of
\* one of its zoom levels
BadRange(tr) ==
    \/ tr.MinZ > tr.MaxZ \/ tr.MinX > tr.MaxX \/ tr.MinY > tr.MaxY
    \/ \E z \in 0 .. MaxZoomLevel :
          /\ tr.MinZ <= z /\ z <= tr.MaxZ
          /\ \E v \in {tr.MinX, tr.MaxX, tr.MinY, tr.MaxY} : v < 0 \/ v > (2 ^ z) - 1

\* the jobs C37 is about
MustReject(j, held) ==
    \/ j.ID = "" \/ j.ID \in held
    \/ j.ConfigNil
    \/ j.TileRanges = << >>
    \/ j.Config.Concurrency <= 0 \/ j.Config.ChunkSize <= 0 \/ j.Config.Timeout <= 0
    \/ \E i \in DOMAIN j.TileRanges : BadRange(j.TileRanges[i])

\* C37: SubmitJob rejects with a Validation error, and leaves the
\* coordinator's job set unchanged and starts no processing, any job with an
\* empty ID, an ID already present, no config, no tile ranges, a non-positive
\* concurrency, chunk size or timeout, or a tile range with min > max or with
\* coordinates outside the 2^z grid of any of its zoom levels.
C37_SubmitRejects ==
    (call.pc = "returned" /\ MustReject(call.job, call.before)) =>
        /\ call.ret = "VALIDATION_ERROR"
        /\ call.jobs = call.before
        /\ call.started = {}

\* SubmitJob has rejected a job with a new ID and a valid configuration whose
\* only range, zoom levels 0 to 1, fits the grid of zoom 1 and not of zoom 0
C37_Witness ==
    /\ call.pc = "returned" /\ call.ret = "VALIDATION_ERROR"
    /\ call.job.ID = "b" /\ ~call.job.ConfigNil
    /\ call.job.Config.Concurrency = 1 /\ call.job.Config.ChunkSize = 1
    /\ call.job.Config.Timeout = 1
    /\ call.job.TileRanges =
          << [MinZ |-> 0, MaxZ |-> 1, MinX |-> 0, MaxX |-> 1, MinY |-> 0, MaxY |-> 0] >>

----------------------------------------------------------------------------
(* Properties of repeated conversions (SpecConvert) *)

\* the features of a tile in decode order: layer after layer as in the bytes
RECURSIVE DecodeOrder(_, _)
DecodeOrder(t, i) ==
    IF i > Len(t) THEN << >>
    ELSE [k \in 1 .. t[i].count |-> [layer |-> t[i].name, index |-> k]]
         \o DecodeOrder(t, i + 1)

\* C38: Convert is deterministic in feature order: converting the same tile
\* bytes twice yields FeatureCollections whose features appear in the same
\* (decode) order, including when the tile has several layers.
C38_SameFeatureOrder ==
    (call.fn = "convert" /\ Len(call.results) = 2) =>
        /\ call.results[1] = call.results[2]
        /\ call.results[1] = DecodeOrder(call.tile, 1)

----------------------------------------------------------------------------
(* Properties of the output format (SpecFormat) *)

\* C39: every output format value accepted by configuration validation
\* (validateOutput) is accepted by the formatter factory NewFormatter after
\* the CLI's conversion to output.Format, so a configuration that passes
\* Validate never fails later with 'unsupported format'.
C39_ValidatedFormatIsSupported ==
    /\ (call.fn = "format" /\ call.pc \in {"validated", "writer"}) =>
           NewFormatter(ToFormat(call.output.Format)).err = Nil
    /\ (call.fn = "format" /\ call.pc = "failed") =>
           ~contains(call.err, "unsupported format")

----------------------------------------------------------------------------
(* Properties of the decoder's transform (SpecTransform) *)

\* C40: the tile to Web Mercator transform scales each layer's local
\* coordinates by that layer's own extent E, also when E differs from 4096:
\* local coordinate (E, E) of tile (z,x,y) maps to the same point as local
\* (0,0) of tile (z,x+1,y+1), and local (0,0) of tile (0,0,0) maps to
\* (-M, +M).
C40_ScaledByLayerExtent ==
    (call.fn = "transform" /\ call.pc = "decoded") =>
        LET E == call.layer.Extent
            point == call.layer.Features[1]
            mapped == call.decoded[1].Features[1]
        IN /\ point = << E, E >> =>
                 mapped = transformPoint(E, << 0, 0 >>,
                                         call.z, call.x + 1, call.y + 1)
           /\ (point = << 0, 0 >> /\ call.z = 0 /\ call.x = 0 /\ call.y = 0) =>
                 mapped = << << -1, 1 >>, << 1, 1 >> >>

====
